---------------------------- MODULE Spec2Model ----------------------------
(***************************************************************************)
(* Stakeholder-aware retrieval and classification pipeline of the payment  *)
(* chatbot: query router, role boundary validator, document classifier,    *)
(* entity extractor, vector search and response generator.                 *)
(*                                                                         *)
(* Python strings are sequences of one-character strings, so that          *)
(* str.lower(), `in` (substring), startswith and slicing are computed on   *)
(* characters.  Role identifiers and document types, which the code only   *)
(* compares for equality or uses as dictionary keys, stay TLA+ strings;    *)
(* Chars gives the characters of a role identifier where the code          *)
(* searches inside it.                                                     *)
(***************************************************************************)
EXTENDS Integers, Sequences, FiniteSets, TLC

VARIABLES
    pc,     \* position of the call being modelled: "call", "done"
    inp,    \* arguments of the call
    out,    \* what the call produced: a returned value or a raised exception
    log,    \* calls to external services made so far, with their outcomes
    store   \* the vector index: the vectors upserted so far

vars == <<pc, inp, out, log, store>>

(***************************************************************************)
(* Python values                                                           *)
(***************************************************************************)
None == "None"      \* Python's None where a string argument is optional

NoResult == [status |-> "pending"]
Returned(v) == [status |-> "returned", value |-> v]
Raised(e) == [status |-> "raised", error |-> e]

(***************************************************************************)
(* Strings                                                                 *)
(***************************************************************************)
LowerMap ==
    "A" :> "a" @@ "B" :> "b" @@ "C" :> "c" @@ "D" :> "d" @@ "E" :> "e" @@
    "F" :> "f" @@ "G" :> "g" @@ "H" :> "h" @@ "I" :> "i" @@ "J" :> "j" @@
    "K" :> "k" @@ "L" :> "l" @@ "M" :> "m" @@ "N" :> "n" @@ "O" :> "o" @@
    "P" :> "p" @@ "Q" :> "q" @@ "R" :> "r" @@ "S" :> "s" @@ "T" :> "t" @@
    "U" :> "u" @@ "V" :> "v" @@ "W" :> "w" @@ "X" :> "x" @@ "Y" :> "y" @@
    "Z" :> "z"

LowerChar(c) == IF c \in DOMAIN LowerMap THEN LowerMap[c] ELSE c

\* str.lower(); SubSeq makes the result a tuple of characters
Lower(s) == SubSeq([i \in 1..Len(s) |-> LowerChar(s[i])], 1, Len(s))

\* k in s   (substring test; the empty string is in every string)
Contains(s, k) ==
    \E i \in 1..(Len(s) - Len(k) + 1) : \A j \in 1..Len(k) : s[i + j - 1] = k[j]

\* sep.join(words)
RECURSIVE Join(_, _)
Join(words, sep) ==
    IF Len(words) = 0 THEN <<>>
    ELSE IF Len(words) = 1 THEN words[1]
    ELSE words[1] \o sep \o Join(Tail(words), sep)

\* s[:n]
Take(s, n) == SubSeq(s, 1, IF Len(s) < n THEN Len(s) ELSE n)

\* [x for x in xs if P(x)]
Filter(xs, P(_)) == SelectSeq(xs, P)

Range(f) == {f[i] : i \in DOMAIN f}

\* every sequence over S of length at most n
SeqsUpTo(S, n) == UNION {[1..k -> S] : k \in 0..n}

(***************************************************************************)
(* chatbot/stakeholder_handler.py                                          *)
(***************************************************************************)
role_filters == [
    product_lead |-> [
        required_terms |-> <<
            <<"u","s","e","r">>,  \* 'user'
            <<"c","u","s","t","o","m","e","r">>,  \* 'customer'
            <<"t","r","a","n","s","a","c","t","i","o","n">>,  \* 'transaction'
            <<"r","a","t","e">>,  \* 'rate'
            <<"a","d","o","p","t","i","o","n">>,  \* 'adoption'
            <<"m","e","t","r","i","c">>   \* 'metric'
        >>,
        forbidden_terms |-> <<
            <<"A","P","I">>,  \* 'API'
            <<"e","n","d","p","o","i","n","t">>,  \* 'endpoint'
            <<"H","T","T","P">>,  \* 'HTTP'
            <<"s","t","a","t","u","s"," ","c","o","d","e">>,  \* 'status code'
            <<"K","Y","C">>,  \* 'KYC'
            <<"A","M","L">>,  \* 'AML'
            <<"S","L","A">>   \* 'SLA'
        >>
    ],
    tech_lead |-> [
        required_terms |-> <<
            <<"A","P","I">>,  \* 'API'
            <<"e","r","r","o","r">>,  \* 'error'
            <<"s","y","s","t","e","m">>,  \* 'system'
            <<"i","n","t","e","g","r","a","t","i","o","n">>,  \* 'integration'
            <<"t","e","c","h","n","i","c","a","l">>,  \* 'technical'
            <<"p","e","r","f","o","r","m","a","n","c","e">>   \* 'performance'
        >>,
        forbidden_terms |-> <<
            <<"c","o","n","v","e","r","s","i","o","n"," ","r","a","t","e">>,  \* 'conversion rate'
            <<"u","s","e","r"," ","a","d","o","p","t","i","o","n">>,  \* 'user adoption'
            <<"K","Y","C">>,  \* 'KYC'
            <<"A","M","L">>,  \* 'AML'
            <<"S","L","A">>,  \* 'SLA'
            <<"c","o","n","t","r","a","c","t">>   \* 'contract'
        >>
    ],
    compliance_lead |-> [
        required_terms |-> <<
            <<"c","o","m","p","l","i","a","n","c","e">>,  \* 'compliance'
            <<"r","e","g","u","l","a","t","o","r","y">>,  \* 'regulatory'
            <<"K","Y","C">>,  \* 'KYC'
            <<"A","M","L">>,  \* 'AML'
            <<"a","u","d","i","t">>,  \* 'audit'
            <<"r","i","s","k">>   \* 'risk'
        >>,
        forbidden_terms |-> <<
            <<"A","P","I">>,  \* 'API'
            <<"e","n","d","p","o","i","n","t">>,  \* 'endpoint'
            <<"c","o","d","e">>,  \* 'code'
            <<"c","o","n","v","e","r","s","i","o","n">>,  \* 'conversion'
            <<"S","L","A">>,  \* 'SLA'
            <<"p","a","r","t","n","e","r","s","h","i","p">>   \* 'partnership'
        >>
    ],
    bank_alliance_lead |-> [
        required_terms |-> <<
            <<"S","L","A">>,  \* 'SLA'
            <<"p","a","r","t","n","e","r","s","h","i","p">>,  \* 'partnership'
            <<"b","a","n","k">>,  \* 'bank'
            <<"p","a","r","t","n","e","r">>,  \* 'partner'
            <<"a","g","r","e","e","m","e","n","t">>,  \* 'agreement'
            <<"u","p","t","i","m","e">>   \* 'uptime'
        >>,
        forbidden_terms |-> <<
            <<"A","P","I"," ","e","r","r","o","r">>,  \* 'API error'
            <<"c","o","d","e">>,  \* 'code'
            <<"c","o","n","v","e","r","s","i","o","n">>,  \* 'conversion'
            <<"K","Y","C">>,  \* 'KYC'
            <<"A","M","L">>,  \* 'AML'
            <<"c","o","m","p","l","i","a","n","c","e">>   \* 'compliance'
        >>
    ]
]

\* The mutant of validate_response_relevance: one required term is enough.
validate_response_relevance_one_term(response, stakeholder) ==
    LET response_lower == Lower(response)
        forbidden == IF stakeholder \in DOMAIN role_filters
                     THEN role_filters[stakeholder].forbidden_terms ELSE <<>>
        violations == SelectSeq(forbidden,
                          LAMBDA term : Contains(response_lower, Lower(term)))
        required == IF stakeholder \in DOMAIN role_filters
                    THEN role_filters[stakeholder].required_terms ELSE <<>>
        matches == SelectSeq(required,
                       LAMBDA term : Contains(response_lower, Lower(term)))
    IN  IF Len(violations) > 0 THEN FALSE
        ELSE IF Len(matches) < 1 THEN FALSE
        ELSE TRUE

\* StakeholderHandler.validate_response_relevance: filters is {} for an
\* unknown role, so both term lists are then empty.
validate_response_relevance(response, stakeholder) ==
    LET response_lower == Lower(response)
        forbidden == IF stakeholder \in DOMAIN role_filters
                     THEN role_filters[stakeholder].forbidden_terms ELSE <<>>
        violations == SelectSeq(forbidden,
                          LAMBDA term : Contains(response_lower, Lower(term)))
        required == IF stakeholder \in DOMAIN role_filters
                    THEN role_filters[stakeholder].required_terms ELSE <<>>
        matches == SelectSeq(required,
                       LAMBDA term : Contains(response_lower, Lower(term)))
    IN  IF Len(violations) > 0 THEN FALSE
        ELSE IF Len(matches) < 2 THEN FALSE
        ELSE TRUE

(***************************************************************************)
(* Inputs                                                                  *)
(***************************************************************************)
Space == <<" ">>

\* The four roles, in the insertion order of the role tables.
Roles == <<"product_lead", "tech_lead", "compliance_lead", "bank_alliance_lead">>

\* A role identifier no table knows.
UnknownRole == "admin"

MaxAnswerWords == 3

\* Words of a generated answer, in the case a language model writes them.
AnswerVocab == {
    <<"A","P","I">>,  \* 'API'
    <<"e","r","r","o","r">>,  \* 'error'
    <<"U","s","e","r">>,  \* 'User'
    <<"r","a","t","e">>,  \* 'rate'
    <<"c","o","n","v","e","r","s","i","o","n">>,  \* 'conversion'
    <<"p","a","r","t","n","e","r","s","h","i","p">>,  \* 'partnership'
    <<"K","Y","C">>,  \* 'KYC'
    <<"s","y","s","t","e","m">>,  \* 'system'
    <<"s","t","a","t","u","s">>,  \* 'status'
    <<"c","o","d","e">>   \* 'code'
}

Answers == {Join(ws, Space) : ws \in SeqsUpTo(AnswerVocab, MaxAnswerWords)}

(***************************************************************************)
(* The validator as a state machine: one call of                           *)
(* validate_response_relevance on an answer and a role.                    *)
(***************************************************************************)
InitValidate ==
    /\ pc = "call"
    /\ inp \in [op : {"validate_response_relevance"},
                response : Answers,
                stakeholder : Range(Roles) \cup {UnknownRole}]
    /\ out = NoResult
    /\ log = <<>>
    /\ store = <<>>

ValidateResponseRelevance ==
    /\ pc = "call"
    /\ inp.op = "validate_response_relevance"
    /\ out' = Returned(validate_response_relevance(inp.response, inp.stakeholder))
    /\ pc' = "done"
    /\ UNCHANGED <<inp, log, store>>

NextValidate == ValidateResponseRelevance

SpecValidate == InitValidate /\ [][NextValidate]_vars

\* The role's terms as sets of lower-cased strings.
ForbiddenOf(role) ==
    IF role \in DOMAIN role_filters
    THEN {Lower(t) : t \in Range(role_filters[role].forbidden_terms)} ELSE {}
RequiredOf(role) ==
    IF role \in DOMAIN role_filters
    THEN {Lower(t) : t \in Range(role_filters[role].required_terms)} ELSE {}

ForbiddenPresent(answer, role) ==
    {t \in ForbiddenOf(role) : Contains(Lower(answer), t)}
RequiredPresent(answer, role) ==
    {t \in RequiredOf(role) : Contains(Lower(answer), t)}

ValidateDone == pc = "done" /\ inp.op = "validate_response_relevance"

\* C1: validate_response_relevance(answer, role) is true exactly when no
\* forbidden term of the role occurs in the lower-cased answer and at least
\* two distinct required terms of the role occur in it; a forbidden term
\* forces false however many required terms are present.
C1_AdherenceIffNoForbiddenAndTwoRequired ==
    ValidateDone =>
        /\ out.status = "returned"
        /\ out.value = TRUE <=>
              /\ ForbiddenPresent(inp.response, inp.stakeholder) = {}
              /\ Cardinality(RequiredPresent(inp.response, inp.stakeholder)) >= 2
        /\ ForbiddenPresent(inp.response, inp.stakeholder) # {} => out.value = FALSE

\* A forbidden term together with two required terms: the answer is rejected.
C1_Witness_ForbiddenOverridesRequired ==
    /\ ValidateDone
    /\ ForbiddenPresent(inp.response, inp.stakeholder) # {}
    /\ Cardinality(RequiredPresent(inp.response, inp.stakeholder)) >= 2
    /\ out.value = FALSE

(***************************************************************************)
(* chatbot/query_router.py                                                 *)
(***************************************************************************)
stakeholder_keywords == [
    product_lead |-> [
        high |-> <<
            <<"c","o","n","v","e","r","s","i","o","n">>,  \* 'conversion'
            <<"a","d","o","p","t","i","o","n">>,  \* 'adoption'
            <<"g","r","o","w","t","h">>,  \* 'growth'
            <<"m","e","t","r","i","c","s">>,  \* 'metrics'
            <<"k","p","i">>,  \* 'kpi'
            <<"t","r","e","n","d","s">>,  \* 'trends'
            <<"v","o","l","u","m","e">>,  \* 'volume'
            <<"r","e","t","e","n","t","i","o","n">>   \* 'retention'
        >>,
        medium |-> <<
            <<"t","r","a","n","s","a","c","t","i","o","n">>,  \* 'transaction'
            <<"u","s","e","r","s">>,  \* 'users'
            <<"c","u","s","t","o","m","e","r">>,  \* 'customer'
            <<"s","u","c","c","e","s","s"," ","r","a","t","e">>,  \* 'success rate'
            <<"p","e","r","f","o","r","m","a","n","c","e">>,  \* 'performance'
            <<"a","n","a","l","y","t","i","c","s">>   \* 'analytics'
        >>,
        low |-> <<
            <<"p","o","p","u","l","a","r">>,  \* 'popular'
            <<"p","a","y","m","e","n","t"," ","m","e","t","h","o","d">>,  \* 'payment method'
            <<"u","s","a","g","e">>,  \* 'usage'
            <<"b","e","h","a","v","i","o","r">>   \* 'behavior'
        >>
    ],
    tech_lead |-> [
        high |-> <<
            <<"a","p","i">>,  \* 'api'
            <<"e","r","r","o","r">>,  \* 'error'
            <<"e","n","d","p","o","i","n","t">>,  \* 'endpoint'
            <<"i","n","t","e","g","r","a","t","i","o","n">>,  \* 'integration'
            <<"l","a","t","e","n","c","y">>,  \* 'latency'
            <<"t","i","m","e","o","u","t">>,  \* 'timeout'
            <<"d","e","b","u","g">>   \* 'debug'
        >>,
        medium |-> <<
            <<"t","e","c","h","n","i","c","a","l">>,  \* 'technical'
            <<"s","y","s","t","e","m">>,  \* 'system'
            <<"s","e","r","v","e","r">>,  \* 'server'
            <<"r","e","s","p","o","n","s","e"," ","t","i","m","e">>,  \* 'response time'
            <<"f","a","i","l","u","r","e">>,  \* 'failure'
            <<"a","r","c","h","i","t","e","c","t","u","r","e">>   \* 'architecture'
        >>,
        low |-> <<
            <<"c","o","d","e">>,  \* 'code'
            <<"l","o","g","s">>,  \* 'logs'
            <<"p","e","r","f","o","r","m","a","n","c","e">>,  \* 'performance'
            <<"i","m","p","l","e","m","e","n","t","a","t","i","o","n">>   \* 'implementation'
        >>
    ],
    compliance_lead |-> [
        high |-> <<
            <<"k","y","c">>,  \* 'kyc'
            <<"a","m","l">>,  \* 'aml'
            <<"c","o","m","p","l","i","a","n","c","e">>,  \* 'compliance'
            <<"r","e","g","u","l","a","t","o","r","y">>,  \* 'regulatory'
            <<"a","u","d","i","t">>,  \* 'audit'
            <<"f","r","a","u","d">>,  \* 'fraud'
            <<"r","i","s","k">>   \* 'risk'
        >>,
        medium |-> <<
            <<"s","u","s","p","i","c","i","o","u","s">>,  \* 'suspicious'
            <<"p","o","l","i","c","y">>,  \* 'policy'
            <<"l","e","g","a","l">>,  \* 'legal'
            <<"v","i","o","l","a","t","i","o","n">>,  \* 'violation'
            <<"r","e","q","u","i","r","e","m","e","n","t">>   \* 'requirement'
        >>,
        low |-> <<
            <<"r","e","p","o","r","t">>,  \* 'report'
            <<"m","a","n","d","a","t","o","r","y">>,  \* 'mandatory'
            <<"g","u","i","d","e","l","i","n","e","s">>,  \* 'guidelines'
            <<"v","e","r","i","f","i","c","a","t","i","o","n">>   \* 'verification'
        >>
    ],
    bank_alliance_lead |-> [
        high |-> <<
            <<"s","l","a">>,  \* 'sla'
            <<"p","a","r","t","n","e","r","s","h","i","p">>,  \* 'partnership'
            <<"a","g","r","e","e","m","e","n","t">>,  \* 'agreement'
            <<"c","o","n","t","r","a","c","t">>,  \* 'contract'
            <<"p","a","r","t","n","e","r">>,  \* 'partner'
            <<"u","p","t","i","m","e">>   \* 'uptime'
        >>,
        medium |-> <<
            <<"b","a","n","k">>,  \* 'bank'
            <<"r","e","l","a","t","i","o","n","s","h","i","p">>,  \* 'relationship'
            <<"s","e","r","v","i","c","e"," ","l","e","v","e","l">>,  \* 'service level'
            <<"v","e","n","d","o","r">>,  \* 'vendor'
            <<"a","l","l","i","a","n","c","e">>   \* 'alliance'
        >>,
        low |-> <<
            <<"h","d","f","c">>,  \* 'hdfc'
            <<"i","c","i","c","i">>,  \* 'icici'
            <<"s","b","i">>,  \* 'sbi'
            <<"a","x","i","s">>,  \* 'axis'
            <<"i","n","t","e","g","r","a","t","i","o","n"," ","h","e","a","l","t","h">>   \* 'integration health'
        >>
    ]
]

\* Iteration order of a keyword group dictionary.
Levels == <<"high", "medium", "low">>

weights == [high |-> 5, medium |-> 2, low |-> 1]

\* bool(user_role): None and the empty string are falsy.
Truthy(s) == s # None /\ s # ""

\* The loop of route_query: the score of one role for a lower-cased query.
RoleScore(stakeholder, query_lower) ==
    LET LevelScore(weight_level) ==
            weights[weight_level] *
            Len(SelectSeq(stakeholder_keywords[stakeholder][weight_level],
                          LAMBDA keyword : Contains(query_lower, Lower(keyword))))
        RECURSIVE Sum(_)
        Sum(n) == IF n = 0 THEN 0 ELSE Sum(n - 1) + LevelScore(Levels[n])
    IN  Sum(Len(Levels))

\* The mutant of MaxByScore: on a tie the last key of the dictionary wins.
MaxByScoreLast(keys, scores) ==
    LET best == CHOOSE i \in 1..Len(keys) :
                    /\ \A j \in 1..Len(keys) : scores[keys[j]] <= scores[keys[i]]
                    /\ \A j \in (i + 1)..Len(keys) : scores[keys[j]] < scores[keys[i]]
    IN  keys[best]

\* max(scores, key=scores.get): the first key, in the dictionary's iteration
\* order, whose score no other key exceeds.
MaxByScore(keys, scores) ==
    LET best == CHOOSE i \in 1..Len(keys) :
                    /\ \A j \in 1..Len(keys) : scores[keys[j]] <= scores[keys[i]]
                    /\ \A j \in 1..(i - 1) : scores[keys[j]] < scores[keys[i]]
    IN  keys[best]

\* The mutant of route_query: the explicit role is ignored.
route_query_ignoring_user_role(query, user_role) ==
    LET query_lower == Lower(query)
        scores == [role \in Range(Roles) |-> RoleScore(role, query_lower)]
        best_match == MaxByScore(Roles, scores)
        best_score == scores[best_match]
    IN  IF best_score = 0 THEN "product_lead" ELSE best_match

\* The mutant of route_query: a high keyword weighs as much as a medium one.
route_query_flat_weights(query, user_role) ==
    IF Truthy(user_role) /\ user_role \in DOMAIN stakeholder_keywords
    THEN user_role
    ELSE
        LET query_lower == Lower(query)
            Matches(role, level) ==
                Len(SelectSeq(stakeholder_keywords[role][level],
                              LAMBDA keyword : Contains(query_lower, Lower(keyword))))
            scores == [role \in Range(Roles) |->
                          2 * Matches(role, "high") + 2 * Matches(role, "medium")
                          + Matches(role, "low")]
            best_match == MaxByScore(Roles, scores)
            best_score == scores[best_match]
        IN  IF best_score = 0 THEN "product_lead" ELSE best_match

\* The mutant of route_query: with no keyword matched the default is
\* another role.
route_query_default_tech_lead(query, user_role) ==
    IF Truthy(user_role) /\ user_role \in DOMAIN stakeholder_keywords
    THEN user_role
    ELSE
        LET query_lower == Lower(query)
            scores == [role \in Range(Roles) |-> RoleScore(role, query_lower)]
            best_match == MaxByScore(Roles, scores)
            best_score == scores[best_match]
        IN  IF best_score = 0 THEN "tech_lead" ELSE best_match

\* The mutant of route_query: any explicit role given is returned, whether
\* or not it is configured.
route_query_echoing_user_role(query, user_role) ==
    IF Truthy(user_role)
    THEN user_role
    ELSE
        LET query_lower == Lower(query)
            scores == [role \in Range(Roles) |-> RoleScore(role, query_lower)]
            best_match == MaxByScore(Roles, scores)
            best_score == scores[best_match]
        IN  IF best_score = 0 THEN "product_lead" ELSE best_match

\* QueryRouter.route_query
route_query(query, user_role) ==
    IF Truthy(user_role) /\ user_role \in DOMAIN stakeholder_keywords
    THEN user_role
    ELSE
        LET query_lower == Lower(query)
            scores == [role \in Range(Roles) |-> RoleScore(role, query_lower)]
            best_match == MaxByScore(Roles, scores)
            best_score == scores[best_match]
        IN  IF best_score = 0 THEN "product_lead" ELSE best_match

(***************************************************************************)
(* The router as a state machine: route_query called on one query and      *)
(* explicit role, and called again with the same arguments.                *)
(***************************************************************************)
MaxHighWords == 2
MaxQueryWords == 2
MaxCalls == 2

\* Queries made only of one role's high-weight keywords.
HighOnlyQueries(role) ==
    {Join(ws, Space) :
        ws \in SeqsUpTo(Range(stakeholder_keywords[role].high), MaxHighWords) \ {<<>>}}

\* Words of a user's question: keywords of several roles and weights, halves
\* of two-word keywords, and a word no table lists.
QueryVocab == {
    <<"C","o","n","v","e","r","s","i","o","n">>,  \* 'Conversion'
    <<"A","P","I">>,  \* 'API'
    <<"k","y","c">>,  \* 'kyc'
    <<"S","L","A">>,  \* 'SLA'
    <<"p","e","r","f","o","r","m","a","n","c","e">>,  \* 'performance'
    <<"i","n","t","e","g","r","a","t","i","o","n">>,  \* 'integration'
    <<"h","e","a","l","t","h">>,  \* 'health'
    <<"B","a","n","k">>,  \* 'Bank'
    <<"r","e","p","o","r","t">>,  \* 'report'
    <<"c","o","d","e">>,  \* 'code'
    <<"h","e","l","l","o">>   \* 'hello'
}

SlaUptimeHdfcQuery ==
    <<"W","h","a","t"," ","i","s"," ","o","u","r"," ","S","L","A"," ","u","p","t","i","m","e"," ","w","i","t","h"," ","H","D","F","C","?">>

Queries ==
    {Join(ws, Space) : ws \in SeqsUpTo(QueryVocab, MaxQueryWords)}
    \cup UNION {HighOnlyQueries(role) : role \in Range(Roles)}
    \cup {SlaUptimeHdfcQuery}

UserRoles == {None, ""} \cup Range(Roles) \cup {UnknownRole}

InitRoute ==
    /\ pc = "call"
    /\ inp \in [op : {"route_query"}, query : Queries, user_role : UserRoles]
    /\ out = NoResult
    /\ log = <<>>
    /\ store = <<>>

\* One call of route_query; log keeps what each call returned.
RouteQuery ==
    /\ pc = "call"
    /\ inp.op = "route_query"
    /\ out' = Returned(route_query(inp.query, inp.user_role))
    /\ log' = Append(log, out'.value)
    /\ pc' = "done"
    /\ UNCHANGED <<inp, store>>

\* The caller repeats the call with the same arguments.
RouteAgain ==
    /\ pc = "done"
    /\ inp.op = "route_query"
    /\ Len(log) < MaxCalls
    /\ pc' = "call"
    /\ UNCHANGED <<inp, out, log, store>>

NextRoute == RouteQuery \/ RouteAgain

SpecRoute == InitRoute /\ [][NextRoute]_vars

RouteDone == pc = "done" /\ inp.op = "route_query"

ExplicitValid == inp.user_role \in Range(Roles)

KeywordsPresent(role, level, query) ==
    LET query_lower == Lower(query)
    IN  {k \in Range(stakeholder_keywords[role][level]) :
            Contains(query_lower, Lower(k))}

\* 5 per high, 2 per medium, 1 per low keyword found in the query.
Score(role, query) ==
    5 * Cardinality(KeywordsPresent(role, "high", query))
    + 2 * Cardinality(KeywordsPresent(role, "medium", query))
    + 1 * Cardinality(KeywordsPresent(role, "low", query))

\* The scores of the four roles, in the order of Roles.
ScoresOf(query) ==
    <<Score(Roles[1], query), Score(Roles[2], query),
      Score(Roles[3], query), Score(Roles[4], query)>>

Top(scores) == CHOOSE m \in Range(scores) : \A i \in DOMAIN scores : scores[i] <= m

TopScore(query) == Top(ScoresOf(query))

\* The words of a string: its maximal runs of characters other than sep.
Tokens(s, sep) ==
    LET n == Len(s)
        IsRun(i, j) ==
            /\ i <= j
            /\ \A k \in i..j : s[k] # sep
            /\ i = 1 \/ s[i - 1] = sep
            /\ j = n \/ s[j + 1] = sep
    IN  {SubSeq(s, q[1], q[2]) : q \in {r \in (1..n) \X (1..n) : IsRun(r[1], r[2])}}

\* The query consists of high-weight keywords of the role and nothing else.
OnlyHighKeywordsOf(role, query) ==
    LET words == Tokens(Lower(query), " ")
    IN  words # {} /\ words \subseteq Range(stakeholder_keywords[role].high)

\* C8: with no valid explicit role and at least one keyword matched,
\* route_query returns a role whose score (5 per high, 2 per medium, 1 per
\* low keyword found in the lower-cased query) is maximal; a query made only
\* of one role's high-weight keywords routes to that role, and "What is our
\* SLA uptime with HDFC?" routes to bank_alliance_lead.
C8_RoutesToMaximalScore ==
    (RouteDone /\ ~ExplicitValid) =>
        LET scores == ScoresOf(inp.query)
        IN  /\ out.status = "returned"
            /\ Top(scores) > 0 =>
                  \E i \in 1..Len(Roles) :
                      out.value = Roles[i] /\ scores[i] = Top(scores)
            /\ \A role \in Range(Roles) :
                  OnlyHighKeywordsOf(role, inp.query) => out.value = role
            /\ inp.query = SlaUptimeHdfcQuery => out.value = "bank_alliance_lead"

\* The HDFC question, routed by its keywords, with other roles scoring less.
C8_Witness_SlaUptimeHdfc ==
    /\ RouteDone
    /\ inp.user_role = None
    /\ inp.query = SlaUptimeHdfcQuery
    /\ Score("bank_alliance_lead", inp.query) = 11
    /\ out.value = "bank_alliance_lead"

TiedRoles(scores) == {i \in DOMAIN scores : scores[i] = Top(scores)}

\* C9: when several roles share the maximal nonzero score, route_query
\* returns the first of them in the order product_lead, tech_lead,
\* compliance_lead, bank_alliance_lead, and every repetition of the call
\* returns the same role.
C9_TieResolvesToFirstInRoleOrder ==
    /\ (RouteDone /\ ~ExplicitValid) =>
          LET scores == ScoresOf(inp.query)
              tied == TiedRoles(scores)
          IN  Top(scores) > 0 =>
                  \E i \in tied : (\A j \in tied : i <= j) /\ out.value = Roles[i]
    /\ inp.op = "route_query" => \A i, j \in DOMAIN log : log[i] = log[j]

\* A tie between roles other than the first, the call made twice.
C9_Witness_TieCalledTwice ==
    /\ RouteDone
    /\ ~ExplicitValid
    /\ LET scores == ScoresOf(inp.query)
       IN  /\ Top(scores) > 0
           /\ Cardinality(TiedRoles(scores)) >= 2
           /\ 1 \notin TiedRoles(scores)
    /\ Len(log) >= 2

\* C10: an explicit role that is one of the four configured roles is
\* returned unchanged, whatever the query's keywords score.
C10_ExplicitRoleWins ==
    (RouteDone /\ ExplicitValid) =>
        out.status = "returned" /\ out.value = inp.user_role

\* An explicit role returned although the query scores another role higher.
C10_Witness_ExplicitBeatsKeywords ==
    /\ RouteDone
    /\ ExplicitValid
    /\ \E other \in Range(Roles) :
          Score(other, inp.query) > Score(inp.user_role, inp.query)
    /\ out.value = inp.user_role

\* C11: with no valid explicit role and no keyword of any role in the query
\* (every role's score is zero), route_query returns product_lead.
C11_NoKeywordDefaultsToProductLead ==
    (RouteDone /\ ~ExplicitValid /\ TopScore(inp.query) = 0) =>
        out = Returned("product_lead")

\* A query with no keyword, with an unrecognised explicit role, routed to
\* the default.
C11_Witness_HelloFromUnknownRole ==
    /\ RouteDone
    /\ inp.user_role = UnknownRole
    /\ inp.query = <<"h","e","l","l","o">>
    /\ ScoresOf(inp.query) = <<0, 0, 0, 0>>
    /\ out = Returned("product_lead")

\* C12: for every query string and every explicit-role argument (absent,
\* valid or unrecognised), route_query returns, without raising, exactly one
\* of the four configured roles.
C12_AlwaysReturnsConfiguredRole ==
    RouteDone => (out.status = "returned" /\ out.value \in Range(Roles))

\* An unrecognised explicit role with a query that has keywords: the role
\* returned is a configured one, not the one given.
C12_Witness_UnknownRoleNotEchoed ==
    /\ RouteDone
    /\ inp.user_role = UnknownRole
    /\ TopScore(inp.query) > 0
    /\ out.status = "returned"
    /\ out.value \in Range(Roles)

(***************************************************************************)
(* config.py                                                               *)
(***************************************************************************)
\* Settings.DOCUMENT_TYPES, which is also the key order of DOCUMENT_PATTERNS
DOCUMENT_TYPES ==
    <<"upi_transaction", "bank_api_response", "compliance_report", "partnership_sla">>

\* STAKEHOLDER_CONFIG: the doc_types of each role (the key order is Roles)
STAKEHOLDER_CONFIG == [
    product_lead       |-> [doc_types |-> <<"upi_transaction", "bank_api_response">>],
    tech_lead          |-> [doc_types |-> <<"bank_api_response", "upi_transaction">>],
    compliance_lead    |-> [doc_types |-> <<"compliance_report", "upi_transaction">>],
    bank_alliance_lead |-> [doc_types |-> <<"partnership_sla", "bank_api_response">>]
]

DOCUMENT_PATTERNS == [
    upi_transaction |-> <<
        <<"u","p","i">>,  \* 'upi'
        <<"t","r","a","n","s","a","c","t","i","o","n">>,  \* 'transaction'
        <<"p","a","y","m","e","n","t">>,  \* 'payment'
        <<"t","r","a","n","s","f","e","r">>,  \* 'transfer'
        <<"v","p","a">>,  \* 'vpa'
        <<"m","e","r","c","h","a","n","t">>,  \* 'merchant'
        <<"c","u","s","t","o","m","e","r">>,  \* 'customer'
        <<"a","m","o","u","n","t">>,  \* 'amount'
        <<"s","u","c","c","e","s","s">>,  \* 'success'
        <<"f","a","i","l","e","d">>   \* 'failed'
    >>,
    bank_api_response |-> <<
        <<"a","p","i">>,  \* 'api'
        <<"e","n","d","p","o","i","n","t">>,  \* 'endpoint'
        <<"r","e","s","p","o","n","s","e">>,  \* 'response'
        <<"s","t","a","t","u","s"," ","c","o","d","e">>,  \* 'status code'
        <<"l","a","t","e","n","c","y">>,  \* 'latency'
        <<"i","n","t","e","g","r","a","t","i","o","n">>,  \* 'integration'
        <<"w","e","b","h","o","o","k">>,  \* 'webhook'
        <<"c","a","l","l","b","a","c","k">>   \* 'callback'
    >>,
    compliance_report |-> <<
        <<"c","o","m","p","l","i","a","n","c","e">>,  \* 'compliance'
        <<"a","u","d","i","t">>,  \* 'audit'
        <<"k","y","c">>,  \* 'kyc'
        <<"a","m","l">>,  \* 'aml'
        <<"r","e","g","u","l","a","t","o","r","y">>,  \* 'regulatory'
        <<"r","i","s","k">>,  \* 'risk'
        <<"s","u","s","p","i","c","i","o","u","s"," ","a","c","t","i","v","i","t","y">>,  \* 'suspicious activity'
        <<"r","e","p","o","r","t">>   \* 'report'
    >>,
    partnership_sla |-> <<
        <<"s","l","a">>,  \* 'sla'
        <<"s","e","r","v","i","c","e"," ","l","e","v","e","l">>,  \* 'service level'
        <<"a","g","r","e","e","m","e","n","t">>,  \* 'agreement'
        <<"u","p","t","i","m","e">>,  \* 'uptime'
        <<"p","a","r","t","n","e","r","s","h","i","p">>,  \* 'partnership'
        <<"c","o","n","t","r","a","c","t">>,  \* 'contract'
        <<"p","e","n","a","l","t","y">>,  \* 'penalty'
        <<"a","v","a","i","l","a","b","i","l","i","t","y">>   \* 'availability'
    >>
]

(***************************************************************************)
(* document_processor/document_classifier.py                               *)
(*                                                                         *)
(* Confidences are in hundredths: 0.85 is 85.                              *)
(***************************************************************************)
RuleConfidence == 85

\* The mutant of _has_strong_pattern_match: more than 3 keywords are needed.
_has_strong_pattern_match_above_three(text, doc_type) ==
    LET keywords == IF doc_type \in DOMAIN DOCUMENT_PATTERNS
                    THEN DOCUMENT_PATTERNS[doc_type] ELSE <<>>
        text_lower == Lower(text)
        matches == Len(SelectSeq(keywords, LAMBDA keyword : Contains(text_lower, keyword)))
    IN  matches > 3

\* DocumentClassifier._has_strong_pattern_match
_has_strong_pattern_match(text, doc_type) ==
    LET keywords == IF doc_type \in DOMAIN DOCUMENT_PATTERNS
                    THEN DOCUMENT_PATTERNS[doc_type] ELSE <<>>
        text_lower == Lower(text)
        matches == Len(SelectSeq(keywords, LAMBDA keyword : Contains(text_lower, keyword)))
    IN  matches >= 3

\* The mutant of _rule_based_classify: the file name is not looked at.
_rule_based_classify_ignoring_filename(text, filename) ==
    LET text_lower == Lower(text)
        score(doc_type) ==
            Len(SelectSeq(DOCUMENT_PATTERNS[doc_type],
                          LAMBDA keyword : Contains(text_lower, keyword)))
        scores == [doc_type \in Range(DOCUMENT_TYPES) |-> score(doc_type)]
        best_match == MaxByScore(DOCUMENT_TYPES, scores)
    IN  IF scores[best_match] > 0 THEN best_match ELSE None

\* DocumentClassifier._rule_based_classify
_rule_based_classify(text, filename) ==
    LET text_lower == Lower(text)
        filename_lower == Lower(filename)
        score(doc_type) ==
            LET keywords == DOCUMENT_PATTERNS[doc_type]
                count == Len(SelectSeq(keywords,
                                 LAMBDA keyword : Contains(text_lower, keyword)))
            IN  IF \E i \in 1..Len(keywords) : Contains(filename_lower, keywords[i])
                THEN count + 2 ELSE count
        scores == [doc_type \in Range(DOCUMENT_TYPES) |-> score(doc_type)]
        best_match == MaxByScore(DOCUMENT_TYPES, scores)
    IN  IF scores[best_match] > 0 THEN best_match ELSE None

\* The mutant of _map_to_stakeholders: every role, whatever the type.
_map_to_stakeholders_all_roles(doc_type) == Roles

\* The mutant of _map_to_stakeholders: only the first role whose doc_types
\* list the type.
_map_to_stakeholders_first_role(doc_type) ==
    Take(SelectSeq(Roles,
                   LAMBDA role : \E i \in 1..Len(STAKEHOLDER_CONFIG[role].doc_types) :
                                     STAKEHOLDER_CONFIG[role].doc_types[i] = doc_type),
         1)

\* DocumentClassifier._map_to_stakeholders
_map_to_stakeholders(doc_type) ==
    SelectSeq(Roles,
              LAMBDA role : \E i \in 1..Len(STAKEHOLDER_CONFIG[role].doc_types) :
                                STAKEHOLDER_CONFIG[role].doc_types[i] = doc_type)

\* The mutant of classify_document: an ML answer with a score under 0.5 is
\* reported as type "unknown".
classify_document_unknown_when_unsure(text, filename, ml) ==
    LET rule_based_type == _rule_based_classify(text, filename)
    IN  IF ml.status = "raised" THEN Raised(ml.error)
        ELSE
            LET ml_based_type == IF ml.value[2] < 50 THEN "unknown" ELSE ml.value[1]
                confidence == ml.value[2]
                use_rule == /\ rule_based_type # None
                            /\ _has_strong_pattern_match(text, rule_based_type)
                doc_type == IF use_rule THEN rule_based_type ELSE ml_based_type
                final_confidence == IF use_rule THEN RuleConfidence ELSE confidence
            IN  Returned([doc_type |-> doc_type,
                          confidence |-> final_confidence,
                          stakeholder_relevance |-> _map_to_stakeholders(doc_type),
                          classification_method |->
                              IF rule_based_type = doc_type
                              THEN "rule_based" ELSE "ml_based"])

\* The mutant of classify_document: an ML answer scored above the rule
\* confidence replaces a strong rule candidate.
classify_document_trusting_confident_ml(text, filename, ml) ==
    LET rule_based_type == _rule_based_classify(text, filename)
    IN  IF ml.status = "raised" THEN Raised(ml.error)
        ELSE
            LET ml_based_type == ml.value[1]
                confidence == ml.value[2]
                use_rule == /\ rule_based_type # None
                            /\ _has_strong_pattern_match(text, rule_based_type)
                            /\ confidence <= RuleConfidence
                doc_type == IF use_rule THEN rule_based_type ELSE ml_based_type
                final_confidence == IF use_rule THEN RuleConfidence ELSE confidence
            IN  Returned([doc_type |-> doc_type,
                          confidence |-> final_confidence,
                          stakeholder_relevance |-> _map_to_stakeholders(doc_type),
                          classification_method |->
                              IF rule_based_type = doc_type
                              THEN "rule_based" ELSE "ml_based"])

\* DocumentClassifier.classify_document.  ml is what the zero-shot service
\* answered to _ml_based_classify: Returned(<<label, score>>) or Raised(e),
\* and an exception of the service is not caught on the way out.
classify_document(text, filename, ml) ==
    LET rule_based_type == _rule_based_classify(text, filename)
    IN  IF ml.status = "raised" THEN Raised(ml.error)
        ELSE
            LET ml_based_type == ml.value[1]
                confidence == ml.value[2]
                use_rule == /\ rule_based_type # None
                            /\ _has_strong_pattern_match(text, rule_based_type)
                doc_type == IF use_rule THEN rule_based_type ELSE ml_based_type
                final_confidence == IF use_rule THEN RuleConfidence ELSE confidence
            IN  Returned([doc_type |-> doc_type,
                          confidence |-> final_confidence,
                          stakeholder_relevance |-> _map_to_stakeholders(doc_type),
                          classification_method |->
                              IF rule_based_type = doc_type
                              THEN "rule_based" ELSE "ml_based"])

(***************************************************************************)
(* The classifier as a state machine: one call of classify_document, the   *)
(* zero-shot service answering any label of DOCUMENT_TYPES with any score, *)
(* or failing.                                                             *)
(***************************************************************************)
MaxDocPhrases == 2

\* Phrases of a document: three keywords of one type, single keywords of
\* the same and of other types, two keywords of a type the file name also
\* names, a word no list holds, and one keyword three times.
DocVocab == {
    <<"U","P","I"," ","p","a","y","m","e","n","t"," ","t","r","a","n","s","f","e","r">>,  \* 'UPI payment transfer'
    <<"M","e","r","c","h","a","n","t">>,  \* 'Merchant'
    <<"A","P","I"," ","e","n","d","p","o","i","n","t">>,  \* 'API endpoint'
    <<"l","a","t","e","n","c","y">>,  \* 'latency'
    <<"A","u","d","i","t">>,  \* 'Audit'
    <<"S","L","A"," ","u","p","t","i","m","e"," ","c","o","n","t","r","a","c","t">>,  \* 'SLA uptime contract'
    <<"t","h","e">>,  \* 'the'
    <<"U","P","I"," ","I","D"," ","t","o"," ","U","P","I"," ","I","D"," ","o","n"," ","U","P","I">>   \* 'UPI ID to UPI ID on UPI'
}

DocTexts == {Join(ws, Space) : ws \in SeqsUpTo(DocVocab, MaxDocPhrases)}

Filenames == {<<>>,
    <<"A","P","I","_","l","o","g",".","j","s","o","n">>}

\* Scores the zero-shot service reports for its top label.
MLScores == {34, 97}

MLOutcomes ==
    {Returned(<<label, score>>) : label \in Range(DOCUMENT_TYPES), score \in MLScores}
    \cup {Raised("ConnectionError")}

InitClassify ==
    /\ pc = "call"
    /\ inp \in [op : {"classify_document"}, text : DocTexts, filename : Filenames]
    /\ out = NoResult
    /\ log = <<>>
    /\ store = <<>>

ClassifyDocument ==
    /\ pc = "call"
    /\ inp.op = "classify_document"
    /\ \E ml \in MLOutcomes :
          /\ log' = Append(log, [service |-> "zero_shot_classifier", response |-> ml])
          /\ out' = classify_document(inp.text, inp.filename, ml)
    /\ pc' = "done"
    /\ UNCHANGED <<inp, store>>

NextClassify == ClassifyDocument

SpecClassify == InitClassify /\ [][NextClassify]_vars

ClassifyDone == pc = "done" /\ inp.op = "classify_document"

\* What the zero-shot service answered in this call.
MLResponse == log[Len(log)].response

\* The keywords of a doc type found in the lower-cased text.
PatternsPresent(doc_type, text) ==
    LET text_lower == Lower(text)
    IN  {k \in Range(DOCUMENT_PATTERNS[doc_type]) : Contains(text_lower, k)}

\* How many keywords of each doc type the text holds, in the order of
\* DOCUMENT_TYPES.
PatternCounts(text) ==
    <<Cardinality(PatternsPresent(DOCUMENT_TYPES[1], text)),
      Cardinality(PatternsPresent(DOCUMENT_TYPES[2], text)),
      Cardinality(PatternsPresent(DOCUMENT_TYPES[3], text)),
      Cardinality(PatternsPresent(DOCUMENT_TYPES[4], text))>>

TypeIndex(doc_type) == CHOOSE i \in 1..Len(DOCUMENT_TYPES) : DOCUMENT_TYPES[i] = doc_type

RuleCandidate == _rule_based_classify(inp.text, inp.filename)

RuleCandidateStrong ==
    LET candidate == RuleCandidate
    IN  /\ candidate # None
        /\ Cardinality(PatternsPresent(candidate, inp.text)) >= 3

\* C4: when the zero-shot service raises, classify_document still returns:
\* the rule-based decision if there is a rule candidate, otherwise a typed
\* failure; no exception escapes.
C4_Original_DegradesWhenClassifierServiceFails ==
    (ClassifyDone /\ MLResponse.status = "raised") =>
        /\ out.status = "returned"
        /\ RuleCandidate # None => out.value.doc_type = RuleCandidate

\* C6: when the rule candidate is absent or not strong, the result carries
\* the ML label and the ML confidence and reports the method as ML, also
\* when the ML label equals the weak rule candidate.
C6_Original_WeakRuleReportsMLMethod ==
    (ClassifyDone /\ out.status = "returned" /\ ~RuleCandidateStrong) =>
        /\ out.value.doc_type = MLResponse.value[1]
        /\ out.value.confidence = MLResponse.value[2]
        /\ out.value.classification_method = "ml_based"

\* C7: when a rule candidate exists and at least 3 distinct keywords of its
\* list occur in the lower-cased text, the result is that doc type with
\* confidence 0.85 and method rule-based, whatever the ML service returned;
\* so a text with at least 3 keywords of one type and none of any other
\* type yields that type.
C7_StrongRuleCandidateWins ==
    (ClassifyDone /\ MLResponse.status = "returned") =>
        LET candidate == RuleCandidate
            counts == PatternCounts(inp.text)
            RuleResult(t) ==
                /\ out.status = "returned"
                /\ out.value.doc_type = t
                /\ out.value.confidence = 85
                /\ out.value.classification_method = "rule_based"
        IN  /\ (candidate # None /\ counts[TypeIndex(candidate)] >= 3)
                  => RuleResult(candidate)
            /\ \A i \in 1..Len(DOCUMENT_TYPES) :
                  (counts[i] >= 3 /\ \A j \in 1..Len(DOCUMENT_TYPES) \ {i} : counts[j] = 0)
                  => RuleResult(DOCUMENT_TYPES[i])

\* Exactly three keywords of one type, the ML service naming another type.
C7_Witness_ThreeKeywordsBeatML ==
    /\ ClassifyDone
    /\ MLResponse.status = "returned"
    /\ RuleCandidateStrong
    /\ Cardinality(PatternsPresent(RuleCandidate, inp.text)) = 3
    /\ MLResponse.value[1] # RuleCandidate
    /\ MLResponse.value[2] > 85
    /\ out.value.doc_type = RuleCandidate

\* C14: every result classify_document returns has a doc_type that is one
\* of the four fixed document types, on the rule branch and on the ML
\* branch.
C14_DocTypeIsOneOfFour ==
    (ClassifyDone /\ out.status = "returned") =>
        out.value.doc_type \in {"upi_transaction", "bank_api_response",
                                "compliance_report", "partnership_sla"}

\* The ML branch: no keyword in the text or the file name, the label of the
\* service is the result, although its score is low.
C14_Witness_MLBranchLowScore ==
    /\ ClassifyDone
    /\ RuleCandidate = None
    /\ MLResponse.status = "returned"
    /\ MLResponse.value[2] < 50
    /\ out.status = "returned"
    /\ out.value.doc_type = MLResponse.value[1]
    /\ out.value.classification_method = "ml_based"

(***************************************************************************)
(* chatbot/response_generator.py                                           *)
(*                                                                         *)
(* Similarity scores are in hundredths (0.9 is 90); a confidence is the    *)
(* exact fraction <<numerator, denominator>> of a percentage.              *)
(***************************************************************************)
phrases_to_remove == <<
    <<"A","s"," ","a"," ","P","r","o","d","u","c","t"," ","L","e","a","d",","," ">>,
        \* 'As a Product Lead, '
    <<"A","s"," ","a"," ","T","e","c","h","n","i","c","a","l"," ","L","e","a","d",","," ">>,
        \* 'As a Technical Lead, '
    <<"A","s"," ","a"," ","C","o","m","p","l","i","a","n","c","e"," ","L","e","a","d",","," ">>,
        \* 'As a Compliance Lead, '
    <<"A","s"," ","a"," ","B","a","n","k"," ","A","l","l","i","a","n","c","e"," ","L","e","a","d",","," ">>,
        \* 'As a Bank Alliance Lead, '
    <<"F","r","o","m"," ","a"," ","p","r","o","d","u","c","t"," ","p","e","r","s","p","e","c","t","i","v","e",","," ">>,
        \* 'From a product perspective, '
    <<"F","r","o","m"," ","a"," ","t","e","c","h","n","i","c","a","l"," ","s","t","a","n","d","p","o","i","n","t",","," ">>,
        \* 'From a technical standpoint, '
    <<"F","r","o","m"," ","a"," ","c","o","m","p","l","i","a","n","c","e"," ","p","e","r","s","p","e","c","t","i","v","e",","," ">>,
        \* 'From a compliance perspective, '
    <<"F","r","o","m"," ","a"," ","p","a","r","t","n","e","r","s","h","i","p"," ","p","e","r","s","p","e","c","t","i","v","e",","," ">> 
        \* 'From a partnership perspective, '
>>

Whitespace == {" ", "\n", "\t", "\r"}

StartsWith(s, prefix) ==
    Len(prefix) <= Len(s) /\ \A i \in 1..Len(prefix) : s[i] = prefix[i]

\* str.strip()
Strip(s) ==
    LET kept == {i \in 1..Len(s) : s[i] \notin Whitespace}
    IN  IF kept = {} THEN <<>>
        ELSE SubSeq(s, CHOOSE i \in kept : \A j \in kept : i <= j,
                       CHOOSE i \in kept : \A j \in kept : j <= i)

\* ResponseGenerator._clean_response: each phrase is tried once, in the
\* order of the list, on what the earlier phrases left.
_clean_response(answer) ==
    LET RECURSIVE Loop(_, _)
        Loop(a, i) ==
            IF i > Len(phrases_to_remove) THEN a
            ELSE Loop(IF StartsWith(a, phrases_to_remove[i])
                      THEN SubSeq(a, Len(phrases_to_remove[i]) + 1, Len(a))
                      ELSE a,
                      i + 1)
    IN  Strip(Loop(answer, 1))

Gcd(a, b) == CHOOSE g \in 1..(IF a > b THEN a ELSE b) :
                 /\ a % g = 0 /\ b % g = 0
                 /\ \A h \in (g + 1)..(IF a > b THEN a ELSE b) : ~(a % h = 0 /\ b % h = 0)

\* The fraction n/d in lowest terms (d > 0, n >= 0).
Frac(n, d) == IF n = 0 THEN <<0, 1>> ELSE <<n \div Gcd(n, d), d \div Gcd(n, d)>>

RECURSIVE SumScores(_)
SumScores(docs) == IF Len(docs) = 0 THEN 0 ELSE docs[1].score + SumScores(Tail(docs))

\* The mutant of _calculate_confidence: the scores are summed, not averaged.
_calculate_confidence_sum_of_scores(docs) ==
    IF Len(docs) = 0 THEN Frac(0, 1)
    ELSE IF SumScores(docs) > 100 THEN Frac(100, 1)
    ELSE Frac(SumScores(docs), 1)

\* ResponseGenerator._calculate_confidence: min(avg_score * 100, 100.0),
\* avg_score being sum(scores) / len(scores).
_calculate_confidence(docs) ==
    IF Len(docs) = 0 THEN Frac(0, 1)
    ELSE IF SumScores(docs) > 100 * Len(docs) THEN Frac(100, 1)
    ELSE Frac(SumScores(docs), Len(docs))

\* ResponseGenerator._format_sources
_format_sources(docs) ==
    [i \in 1..Len(docs) |->
        [source |-> docs[i].source,
         doc_type |-> docs[i].doc_type,
         relevance_score |-> docs[i].score,
         preview |-> Take(docs[i].text, 200)]]

MockIntro ==
    <<
    "B","a","s","e","d"," ","o","n"," ","t","h","e"," ","a","v","a",
    "i","l","a","b","l","e"," ","d","o","c","u","m","e","n","t","a",
    "t","i","o","n",":","\n","\n" >>
    \* "Based on the available documentation:\n\n"

MockNote ==
    <<
    "\n","\n","[","N","o","t","e",":"," ","L","L","M"," ","s","e","r",
    "v","i","c","e"," ","t","e","m","p","o","r","a","r","i","l","y",
    " ","u","n","a","v","a","i","l","a","b","l","e","."," ","P","l",
    "e","a","s","e"," ","e","n","s","u","r","e"," ","O","l","l","a",
    "m","a"," ","i","s"," ","r","u","n","n","i","n","g"," ","w","i",
    "t","h"," ","'","o","l","l","a","m","a"," ","s","e","r","v","e",
    "'","]" >>
    \* "\n\n[Note: LLM service temporarily unavailable. Please ensure Ollama
    \*  is running with 'ollama serve']"

MockNoContext ==
    <<
    "I"," ","d","o","n","'","t"," ","h","a","v","e"," ","e","n","o",
    "u","g","h"," ","c","o","n","t","e","x","t"," ","t","o"," ","a",
    "n","s","w","e","r"," ","t","h","i","s"," ","q","u","e","s","t",
    "i","o","n","."," ","P","l","e","a","s","e"," ","t","r","y"," ",
    "r","e","p","h","r","a","s","i","n","g"," ","o","r"," ","p","r",
    "o","v","i","d","e"," ","m","o","r","e"," ","d","e","t","a","i",
    "l","s","." >>
    \* "I don't have enough context to answer this question. Please try
    \*  rephrasing or provide more details."

Ellipsis == <<".", ".", ".">>

\* The mutant of _mock_response: the first document is read without
\* checking that there is one.
_mock_response_unchecked(query, docs, stakeholder) ==
    IF Len(docs) = 0 THEN Raised("IndexError")
    ELSE Returned([success |-> TRUE,
                   answer |-> MockIntro \o Take(docs[1].text, 300) \o Ellipsis \o MockNote,
                   stakeholder |-> stakeholder,
                   confidence |-> Frac(60, 1),
                   sources |-> _format_sources(docs),
                   context_used |-> Len(docs)])

\* ResponseGenerator._mock_response
_mock_response(query, docs, stakeholder) ==
    Returned([success |-> TRUE,
              answer |-> IF Len(docs) > 0
                         THEN MockIntro \o Take(docs[1].text, 300) \o Ellipsis \o MockNote
                         ELSE MockNoContext \o MockNote,
              stakeholder |-> stakeholder,
              confidence |-> IF Len(docs) > 0 THEN Frac(60, 1) ELSE Frac(30, 1),
              sources |-> _format_sources(docs),
              context_used |-> Len(docs)])

\* ResponseGenerator.generate_response.  http is the outcome of
\* requests.post: Raised(e), or Returned of a status code and a body; the
\* body of a 200 either holds the "response" text or cannot be read
\* (json() or the key lookup raises).  Every failure ends in _mock_response.
generate_response(query, context_docs, stakeholder, http) ==
    IF http.status = "raised" THEN _mock_response(query, context_docs, stakeholder)
    ELSE IF http.value.status_code = 200
    THEN IF "response" \in DOMAIN http.value.body
         THEN Returned([success |-> TRUE,
                        answer |-> _clean_response(http.value.body.response),
                        stakeholder |-> stakeholder,
                        confidence |-> _calculate_confidence(context_docs),
                        sources |-> _format_sources(context_docs),
                        context_used |-> Len(context_docs)])
         ELSE _mock_response(query, context_docs, stakeholder)
    ELSE _mock_response(query, context_docs, stakeholder)

(***************************************************************************)
(* The response generator as a state machine: one call of                  *)
(* generate_response, the generation service answering, answering with an  *)
(* error status or an unreadable body, or failing.                         *)
(***************************************************************************)
MaxContextDocs == 2
LongTextLen == 310

\* A stored text longer than every preview.
LongText == [i \in 1..LongTextLen |-> IF i % 2 = 1 THEN "s" ELSE "l"]

\* Retrieved chunks as vector search returns them.
ContextDocPool == {
    [text |-> <<"U","P","I"," ","p","a","y","m","e","n","t"," ","f","a","i","l","e","d">>,
     score |-> 90, source |-> "transactions.pdf", doc_type |-> "upi_transaction"],
    [text |-> LongText,
     score |-> 50, source |-> "api_log.json", doc_type |-> "bank_api_response"]
}

ContextDocLists == SeqsUpTo(ContextDocPool, MaxContextDocs)

\* Texts the language model writes.
GeneratedTexts == {
    <<"C","o","n","v","e","r","s","i","o","n"," ","r","a","t","e"," ","g","r","e","w">>,
    <<"A","s"," ","a"," ","P","r","o","d","u","c","t"," ","L","e","a","d",","," ","u","s","e","r"," ","a","d","o","p","t","i","o","n"," ","g","r","e","w"," ">>,
    <<"\n","A","s"," ","a"," ","P","r","o","d","u","c","t"," ","L","e","a","d",","," ","u","s","e","r"," ","a","d","o","p","t","i","o","n"," ","r","a","t","e"," ","g","r","e","w">>,
    <<"F","r","o","m"," ","a"," ","p","r","o","d","u","c","t"," ","p","e","r","s","p","e","c","t","i","v","e",","," ","A","s"," ","a"," ","P","r","o","d","u","c","t"," ","L","e","a","d",","," ","u","s","e","r"," ","a","d","o","p","t","i","o","n"," ","r","a","t","e"," ","g","r","e","w">>
}

HttpOutcomes ==
    {Raised("ConnectionError"), Raised("Timeout"), Raised("RequestException")}
    \cup {Returned([status_code |-> 500, body |-> [error |-> "internal error"]])}
    \cup {Returned([status_code |-> 200, body |-> [error |-> "model not found"]])}
    \cup {Returned([status_code |-> 200, body |-> [response |-> g]]) : g \in GeneratedTexts}

InitGenerate ==
    /\ pc = "call"
    /\ inp \in [op : {"generate_response"},
                query : {SlaUptimeHdfcQuery},
                context_docs : ContextDocLists,
                stakeholder : Range(Roles)]
    /\ out = NoResult
    /\ log = <<>>
    /\ store = <<>>

GenerateResponse ==
    /\ pc = "call"
    /\ inp.op = "generate_response"
    /\ \E http \in HttpOutcomes :
          /\ log' = Append(log, [service |-> "ollama", response |-> http])
          /\ out' = generate_response(inp.query, inp.context_docs, inp.stakeholder, http)
    /\ pc' = "done"
    /\ UNCHANGED <<inp, store>>

NextGenerate == GenerateResponse

SpecGenerate == InitGenerate /\ [][NextGenerate]_vars

GenerateDone == pc = "done" /\ inp.op = "generate_response"

\* What the generation service answered in this call.
HttpResponse == log[Len(log)].response

\* The generation call failed: it raised, answered with a status other
\* than 200, or answered 200 with a body that holds no response text.
GenerationFailed ==
    \/ HttpResponse.status = "raised"
    \/ /\ HttpResponse.status = "returned"
       /\ \/ HttpResponse.value.status_code # 200
          \/ "response" \notin DOMAIN HttpResponse.value.body

\* C3: when the generation call fails in any way, generate_response does
\* not fail: it returns success=true, with the first context document's
\* preview (at most 300 characters of its text) quoted between the fixed
\* introduction and the unavailability note and confidence 60 when there is
\* a context document, and the fixed insufficient-context message with
\* confidence 30 when there is none.
C3_FallbackOnGenerationFailure ==
    (GenerateDone /\ GenerationFailed) =>
        /\ out.status = "returned"
        /\ out.value.success = TRUE
        /\ Len(inp.context_docs) >= 1 =>
              /\ out.value.confidence = <<60, 1>>
              /\ \E n \in 0..300 :
                    /\ n = Len(inp.context_docs[1].text) \/ n = 300
                    /\ n <= Len(inp.context_docs[1].text)
                    /\ out.value.answer =
                          MockIntro \o SubSeq(inp.context_docs[1].text, 1, n)
                          \o Ellipsis \o MockNote
        /\ Len(inp.context_docs) = 0 =>
              /\ out.value.confidence = <<30, 1>>
              /\ out.value.answer = MockNoContext \o MockNote

\* A timeout with a first document longer than the preview.
C3_Witness_TimeoutLongDocument ==
    /\ GenerateDone
    /\ HttpResponse = Raised("Timeout")
    /\ Len(inp.context_docs) >= 1
    /\ Len(inp.context_docs[1].text) > 300
    /\ out.status = "returned"
    /\ out.value.confidence = <<60, 1>>

(***************************************************************************)
(* vector_db/embedding_service.py, vector_db/vector_search.py,             *)
(* vector_db/knowledge_base.py                                             *)
(*                                                                         *)
(* The index is a function from vector id to [namespace, metadata].  An    *)
(* embedding is not represented: what the index answers to a query, the    *)
(* ranking of the namespace's vectors by similarity, is chosen by the      *)
(* environment.                                                            *)
(***************************************************************************)
\* The characters of the role identifiers.
RoleChars == [
    product_lead       |-> <<"p","r","o","d","u","c","t","_","l","e","a","d">>,
    tech_lead          |-> <<"t","e","c","h","_","l","e","a","d">>,
    compliance_lead    |-> <<"c","o","m","p","l","i","a","n","c","e","_","l","e","a","d">>,
    bank_alliance_lead |-> <<"b","a","n","k","_","a","l","l","i","a","n","c","e","_","l","e","a","d">>
]

Chars(role) == RoleChars[role]

\* [f(x) for x in xs]
Map(xs, f(_)) == [i \in 1..Len(xs) |-> f(xs[i])]

\* EmbeddingService.embed_query: the empty or blank string is refused.
EmbedRaises(text) == \A i \in 1..Len(text) : text[i] \in Whitespace

\* The metadata add_documents stores with a vector.
VectorMetadata(doc) ==
    [text |-> Take(doc.page_content, 1000),
     source |-> IF "source" \in DOMAIN doc.metadata
                THEN doc.metadata.source ELSE "unknown",
     doc_type |-> IF "doc_type" \in DOMAIN doc.metadata
                  THEN doc.metadata.doc_type ELSE "unknown"]
    @@ (IF "stakeholder_relevance" \in DOMAIN doc.metadata
        THEN [stakeholders |->
                 Join(Map(doc.metadata.stakeholder_relevance, Chars), <<",">>)]
        ELSE <<>>)
    @@ (IF /\ "entities" \in DOMAIN doc.metadata
           /\ "amounts" \in DOMAIN doc.metadata.entities
           /\ doc.metadata.entities.amounts # {}
        THEN [has_amounts |-> TRUE] ELSE <<>>)
    @@ (IF /\ "entities" \in DOMAIN doc.metadata
           /\ "dates" \in DOMAIN doc.metadata.entities
           /\ doc.metadata.entities.dates # {}
        THEN [has_dates |-> TRUE] ELSE <<>>)

\* The mutant of FreshId: the id is the position of the document in its
\* batch, the same at every call.
FreshId_from_position(index, i) == i

\* uuid.uuid4() for the i-th document of a batch: an id the index does not
\* hold and no other document of the batch gets.
FreshId(index, i) == Cardinality(DOMAIN index) + i

\* The first document of a batch whose embedding raises, 0 if none does:
\* embed_query refuses a blank text, and embed_fails names the document, if
\* any, on which the embedding model itself fails.
FirstEmbedFailure(documents, embed_fails) ==
    LET failing == {i \in 1..Len(documents) :
                       EmbedRaises(documents[i].page_content) \/ i = embed_fails}
    IN  IF failing = {} THEN 0 ELSE CHOOSE i \in failing : \A j \in failing : i <= j

\* The mutant of add_documents: each vector is upserted as soon as it is
\* embedded, so the documents before a failing one stay in the index.
add_documents_upserting_each(index, documents, namespace, embed_fails, upsert_ok) ==
    LET failed == FirstEmbedFailure(documents, embed_fails)
        done == IF failed # 0 THEN failed - 1 ELSE Len(documents)
        upserted == [id \in {FreshId(index, i) : i \in 1..done} |->
                        LET i == CHOOSE i \in 1..done : FreshId(index, i) = id
                        IN  [namespace |-> namespace,
                             metadata |-> VectorMetadata(documents[i])]]
    IN  IF ~upsert_ok /\ failed = 0 THEN <<Raised("PineconeException"), index>>
        ELSE IF failed # 0
        THEN <<Raised(IF EmbedRaises(documents[failed].page_content)
                      THEN "ValueError" ELSE "RuntimeError"), upserted @@ index>>
        ELSE <<Returned([success |-> TRUE,
                         documents_added |-> Len(documents),
                         namespace |-> namespace]),
               upserted @@ index>>

\* VectorSearch.add_documents on the index.  embed_fails tells on which
\* document, if any, the embedding model fails, and upsert_ok whether the
\* index accepted the upsert.  The result is <<outcome, index afterwards>>:
\* every embedding is computed before the one upsert, so a failure leaves
\* the index as it was.
add_documents(index, documents, namespace, embed_fails, upsert_ok) ==
    LET failed == FirstEmbedFailure(documents, embed_fails)
    IN  IF failed # 0
        THEN <<Raised(IF EmbedRaises(documents[failed].page_content)
                      THEN "ValueError" ELSE "RuntimeError"), index>>
        ELSE IF ~upsert_ok THEN <<Raised("PineconeException"), index>>
        ELSE
            LET vectors == [i \in 1..Len(documents) |->
                               [id |-> FreshId(index, i),
                                metadata |-> VectorMetadata(documents[i])]]
                upserted == [id \in {vectors[i].id : i \in 1..Len(vectors)} |->
                                LET v == CHOOSE v \in Range(vectors) : v.id = id
                                IN  [namespace |-> namespace, metadata |-> v.metadata]]
            IN  <<Returned([success |-> TRUE,
                            documents_added |-> Len(vectors),
                            namespace |-> namespace]),
                  upserted @@ index>>

\* The similarity the index reports for its i-th match.
RankScore(i) == IF i = 1 THEN 90 ELSE IF i = 2 THEN 50 ELSE 30

\* VectorSearch.search.  ranking is the index's answer: the ids of the
\* namespace's vectors by decreasing similarity, or a failure.
search(index, query, top_k, namespace, ranking) ==
    IF EmbedRaises(query) THEN Raised("ValueError")
    ELSE IF ranking.status = "raised" THEN Raised(ranking.error)
    ELSE
        LET matches == Take(ranking.value, top_k)
        IN  Returned([i \in 1..Len(matches) |->
                LET metadata == index[matches[i]].metadata
                IN  [id |-> matches[i],
                     score |-> RankScore(i),
                     text |-> metadata.text,
                     source |-> metadata.source,
                     doc_type |-> metadata.doc_type,
                     metadata |-> metadata]])

\* The filter loop of search_by_stakeholder: results are appended in order
\* until top_k are kept.
RECURSIVE FilterByStakeholder(_, _, _, _)
FilterByStakeholder(results, stakeholder, top_k, filtered_results) ==
    IF Len(results) = 0 THEN filtered_results
    ELSE
        LET result == results[1]
            stakeholders == IF "stakeholders" \in DOMAIN result.metadata
                            THEN result.metadata.stakeholders ELSE <<>>
        IN  IF Contains(stakeholders, Chars(stakeholder)) \/ Len(stakeholders) = 0
            THEN IF Len(filtered_results) + 1 >= top_k
                 THEN Append(filtered_results, result)
                 ELSE FilterByStakeholder(Tail(results), stakeholder, top_k,
                                          Append(filtered_results, result))
            ELSE FilterByStakeholder(Tail(results), stakeholder, top_k,
                                     filtered_results)

\* The mutant of search_by_stakeholder: the results are cut to top_k
\* without looking at the role tag.
search_by_stakeholder_unfiltered(index, query, stakeholder, top_k, namespace, ranking) ==
    LET results == search(index, query, top_k * 2, namespace, ranking)
    IN  IF results.status = "raised" THEN results
        ELSE Returned(Take(results.value, top_k))

\* The mutant of search_by_stakeholder: top_k results are requested, not
\* twice as many.
search_by_stakeholder_requesting_top_k(index, query, stakeholder, top_k, namespace, ranking) ==
    LET results == search(index, query, top_k, namespace, ranking)
    IN  IF results.status = "raised" THEN results
        ELSE Returned(FilterByStakeholder(results.value, stakeholder, top_k, <<>>))

\* VectorSearch.search_by_stakeholder
search_by_stakeholder(index, query, stakeholder, top_k, namespace, ranking) ==
    LET results == search(index, query, top_k * 2, namespace, ranking)
    IN  IF results.status = "raised" THEN results
        ELSE Returned(FilterByStakeholder(results.value, stakeholder, top_k, <<>>))

\* KnowledgeBase.query
knowledge_base_query(index, question, stakeholder, top_k, namespace, ranking) ==
    IF Truthy(stakeholder)
    THEN search_by_stakeholder(index, question, stakeholder, top_k, namespace, ranking)
    ELSE search(index, question, top_k, namespace, ranking)

(***************************************************************************)
(* The index as a state machine: documents are added and the knowledge     *)
(* base is queried, in any order.                                          *)
(***************************************************************************)
MaxVectors == 3
MaxBatch == 2
MaxTopK == 2

Namespaces == {"", "archive"}

\* A chunk as process_and_index_document builds it from a classified
\* document.
ClassifiedChunk(page_content, source, doc_type) ==
    [page_content |-> page_content,
     metadata |-> [source |-> source,
                   doc_type |-> doc_type,
                   stakeholder_relevance |-> _map_to_stakeholders(doc_type)]]

\* Documents handed to add_documents: chunks of classified documents, a
\* document with no classification metadata, one whose list of roles is
\* empty, and one with no text.
DocumentPool == {
    ClassifiedChunk(<<"U","P","I"," ","p","a","y","m","e","n","t"," ","f","a","i","l","e","d">>,
                    "transactions.pdf", "upi_transaction"),
    ClassifiedChunk(<<"S","L","A"," ","u","p","t","i","m","e"," ","9","9",".","9">>,
                    "hdfc_sla.pdf", "partnership_sla"),
    [page_content |-> <<"r","e","l","e","a","s","e"," ","n","o","t","e","s">>,
     metadata |-> [source |-> "notes.txt"]],
    [page_content |-> <<"m","i","s","c">>,
     metadata |-> [source |-> "misc.txt", doc_type |-> "unknown",
                   stakeholder_relevance |-> <<>>]],
    [page_content |-> <<>>,
     metadata |-> [source |-> "empty.txt"]]
}

Batches == SeqsUpTo(DocumentPool, MaxBatch) \ {<<>>}

Questions == {SlaUptimeHdfcQuery, <<>>}

IdsIn(index, namespace) == {id \in DOMAIN index : index[id].namespace = namespace}

\* What the index may answer to a query of a namespace: any order of the
\* namespace's vectors, or a failure.
Rankings(index, namespace) ==
    LET ids == IdsIn(index, namespace)
    IN  {Returned(r) : r \in {r \in [1..Cardinality(ids) -> ids] :
                                 \A i, j \in DOMAIN r : i # j => r[i] # r[j]}}
        \cup {Raised("PineconeException")}

InitStore ==
    /\ pc = "idle"
    /\ inp = [op |-> "none"]
    /\ out = NoResult
    /\ log = <<>>
    /\ store = <<>>

\* One call of VectorSearch.add_documents.
AddDocuments ==
    /\ pc = "idle"
    /\ \E documents \in Batches, namespace \in Namespaces, upsert_ok \in BOOLEAN :
        \E embed_fails \in 0..Len(documents) :
          /\ Cardinality(DOMAIN store) + Len(documents) <= MaxVectors
          /\ LET r == add_documents(store, documents, namespace, embed_fails,
                                    upsert_ok)
             IN  out' = r[1] /\ store' = r[2]
          /\ inp' = [op |-> "add_documents", documents |-> documents,
                     namespace |-> namespace]
    /\ pc' = "done"
    /\ UNCHANGED log

\* One call of KnowledgeBase.query, with or without a role.
Query ==
    /\ pc = "idle"
    /\ \E question \in Questions, stakeholder \in {None} \cup Range(Roles),
          top_k \in 1..MaxTopK, namespace \in Namespaces :
          \E ranking \in Rankings(store, namespace) :
              /\ out' = knowledge_base_query(store, question, stakeholder, top_k,
                                             namespace, ranking)
              /\ inp' = [op |-> "query", question |-> question,
                         stakeholder |-> stakeholder, top_k |-> top_k,
                         namespace |-> namespace]
    /\ pc' = "done"
    /\ UNCHANGED <<log, store>>

\* The call returns to its caller, which may call again.
ReturnToCaller ==
    /\ pc = "done"
    /\ pc' = "idle"
    /\ inp' = [op |-> "none"]
    /\ out' = NoResult
    /\ UNCHANGED <<log, store>>

NextStore == AddDocuments \/ Query \/ ReturnToCaller

SpecStore == InitStore /\ [][NextStore]_vars

\* The role tag stored with a vector; empty when it has none.
StoredTag(id) ==
    IF "stakeholders" \in DOMAIN store[id].metadata
    THEN store[id].metadata.stakeholders ELSE <<>>

\* The roles a tag lists.
RolesListed(tag) == Tokens(tag, ",")

RoleQueryReturned ==
    /\ pc = "done"
    /\ inp.op = "query"
    /\ inp.stakeholder \in Range(Roles)
    /\ out.status = "returned"

\* C2: a retrieval for a role never returns a chunk whose stored role tag
\* is non-empty and does not list the role; a returned chunk whose tag does
\* not list the role has no role tag at all.
C2_RoleScopedRetrievalRespectsTags ==
    RoleQueryReturned =>
        \A i \in 1..Len(out.value) :
            LET tag == StoredTag(out.value[i].id)
            IN  tag = <<>> \/ Chars(inp.stakeholder) \in RolesListed(tag)

\* A retrieval that returns an untagged chunk and leaves out a chunk
\* tagged for other roles, which ranked first.
C2_Witness_ExcludedAndUntagged ==
    /\ RoleQueryReturned
    /\ \E i \in 1..Len(out.value) : StoredTag(out.value[i].id) = <<>>
    /\ \E id \in IdsIn(store, inp.namespace) :
          /\ StoredTag(id) # <<>>
          /\ Chars(inp.stakeholder) \notin RolesListed(StoredTag(id))
          /\ \A i \in 1..Len(out.value) : out.value[i].id # id

(***************************************************************************)
(* Regular expressions as re evaluates them: a pattern is a term, and      *)
(* matching it at a position gives every way it can match there, in the    *)
(* order in which backtracking would try them.                             *)
(***************************************************************************)
Digit == {"0", "1", "2", "3", "4", "5", "6", "7", "8", "9"}
UpperLetter == DOMAIN LowerMap
LowerLetter == {LowerMap[c] : c \in DOMAIN LowerMap}
\* \w and \s on the characters the model uses
WordChar == UpperLetter \cup LowerLetter \cup Digit \cup {"_"}
SpaceChar == {" ", "\t", "\n", "\r", "\f"}

\* The character ` , which a string of the model cannot hold.
Backtick == "U+0060"

UpperChar(c) ==
    IF c \in LowerLetter THEN CHOOSE u \in UpperLetter : LowerMap[u] = c ELSE c

\* [...]
Ch(S) == [t |-> "set", s |-> S]
\* [^...]
NotCh(S) == [t |-> "nset", s |-> S]
\* x1 x2 ... xn
Cat(xs) == [t |-> "cat", xs |-> xs]
\* x1|x2|...|xn
Alt(xs) == [t |-> "alt", xs |-> xs]
\* x{min,max}, greedy; max = -1 stands for no upper limit
Rep(x, min, max) == [t |-> "rep", x |-> x, min |-> min, max |-> max]
Opt(x) == Rep(x, 0, 1)
Star(x) == Rep(x, 0, -1)
Plus(x) == Rep(x, 1, -1)
AtLeast(x, n) == Rep(x, n, -1)
\* (x), the capturing group
Grp(x) == [t |-> "grp", x |-> x]
\* \b
WordBoundary == [t |-> "wb"]
\* a literal string
Lit(chars) == Cat([i \in 1..Len(chars) |-> Ch({chars[i]})])

\* re.IGNORECASE: every character of the pattern matches in both cases.
RECURSIVE IgnoreCase(_)
IgnoreCase(x) ==
    CASE x.t \in {"set", "nset"} ->
            [x EXCEPT !.s = x.s \cup {LowerChar(c) : c \in x.s}
                                \cup {UpperChar(c) : c \in x.s}]
      [] x.t \in {"cat", "alt"} ->
            [x EXCEPT !.xs = [i \in 1..Len(x.xs) |-> IgnoreCase(x.xs[i])]]
      [] x.t \in {"rep", "grp"} -> [x EXCEPT !.x = IgnoreCase(x.x)]
      [] OTHER -> x

RECURSIVE HasGroup(_)
HasGroup(x) ==
    CASE x.t = "grp" -> TRUE
      [] x.t \in {"cat", "alt"} -> \E i \in 1..Len(x.xs) : HasGroup(x.xs[i])
      [] x.t = "rep" -> HasGroup(x.x)
      [] OTHER -> FALSE

IsWordAt(s, i) == i >= 1 /\ i <= Len(s) /\ s[i] \in WordChar

\* A match in progress is <<next position, group>>, where group is <<>> or
\* the <<first, one past last>> positions of the capturing group.
RECURSIVE Match(_, _, _)
RECURSIVE MatchEach(_, _, _)
RECURSIVE MatchCat(_, _, _, _)
RECURSIVE MatchAlt(_, _, _, _)
RECURSIVE MatchRep(_, _, _, _)
RECURSIVE MatchRepEach(_, _, _, _)

Match(x, s, m) ==
    CASE x.t = "set" ->
            IF m[1] <= Len(s) /\ s[m[1]] \in x.s
            THEN <<<<m[1] + 1, m[2]>>>> ELSE <<>>
      [] x.t = "nset" ->
            IF m[1] <= Len(s) /\ s[m[1]] \notin x.s
            THEN <<<<m[1] + 1, m[2]>>>> ELSE <<>>
      [] x.t = "wb" ->
            IF IsWordAt(s, m[1] - 1) # IsWordAt(s, m[1]) THEN <<m>> ELSE <<>>
      [] x.t = "cat" -> MatchCat(x.xs, 1, s, <<m>>)
      [] x.t = "alt" -> MatchAlt(x.xs, 1, s, m)
      [] x.t = "rep" -> MatchRep(x, s, m, 0)
      [] x.t = "grp" ->
            LET ms == Match(x.x, s, m)
            IN  [k \in 1..Len(ms) |-> <<ms[k][1], <<m[1], ms[k][1]>>>>]

\* x continued from each of the matches ms, in their order
MatchEach(x, s, ms) ==
    IF Len(ms) = 0 THEN <<>>
    ELSE Match(x, s, Head(ms)) \o MatchEach(x, s, Tail(ms))

MatchCat(xs, k, s, ms) ==
    IF k > Len(xs) \/ Len(ms) = 0 THEN ms
    ELSE MatchCat(xs, k + 1, s, MatchEach(xs[k], s, ms))

MatchAlt(xs, k, s, m) ==
    IF k > Len(xs) THEN <<>>
    ELSE Match(xs[k], s, m) \o MatchAlt(xs, k + 1, s, m)

\* Greedy repetition: one more x is tried before stopping here.
MatchRep(x, s, m, count) ==
    LET more == IF x.max = -1 \/ count < x.max
                THEN MatchRepEach(x, s,
                                  SelectSeq(Match(x.x, s, m),
                                            LAMBDA n : n[1] > m[1]),
                                  count + 1)
                ELSE <<>>
    IN  more \o (IF count >= x.min THEN <<m>> ELSE <<>>)

MatchRepEach(x, s, ms, count) ==
    IF Len(ms) = 0 THEN <<>>
    ELSE MatchRep(x, s, Head(ms), count) \o MatchRepEach(x, s, Tail(ms), count)

\* re.findall(pattern, s) from position pos on: the non-overlapping
\* matches from left to right; the group's text if the pattern has a
\* group, the whole match otherwise.
RECURSIVE FindAllFrom(_, _, _)
FindAllFrom(x, s, pos) ==
    IF pos > Len(s) + 1 THEN <<>>
    ELSE LET ms == Match(x, s, <<pos, <<>>>>)
         IN  IF Len(ms) = 0 THEN FindAllFrom(x, s, pos + 1)
             ELSE LET m == ms[1]
                      found == IF HasGroup(x)
                               THEN IF Len(m[2]) = 0 THEN <<>>
                                    ELSE SubSeq(s, m[2][1], m[2][2] - 1)
                               ELSE SubSeq(s, pos, m[1] - 1)
                  IN  <<found>> \o
                      FindAllFrom(x, s, IF m[1] > pos THEN m[1] ELSE pos + 1)

findall(pattern, s) == FindAllFrom(pattern, s, 1)

\* for pattern in patterns: bucket.extend(re.findall(pattern, text, re.IGNORECASE))
RECURSIVE ExtendWithMatches(_, _, _)
ExtendWithMatches(patterns, k, text) ==
    IF k > Len(patterns) THEN <<>>
    ELSE findall(IgnoreCase(patterns[k]), text)
         \o ExtendWithMatches(patterns, k + 1, text)

(***************************************************************************)
(* document_processor/entity_extractor.py                                  *)
(***************************************************************************)
amount_patterns == <<
    \* r'₹\s*([0-9,]+(?:\.[0-9]{2})?)'
    Cat(<<Ch({"₹"}), Star(Ch(SpaceChar)),
      Grp(Cat(<<Plus(Ch(Digit \cup {","})), Opt(Cat(<<Ch({"."}),
      Rep(Ch(Digit), 2, 2)>>))>>))>>),
    \* r'INR\s*([0-9,]+(?:\.[0-9]{2})?)'
    Cat(<<Lit(<<"I","N","R">>), Star(Ch(SpaceChar)),
      Grp(Cat(<<Plus(Ch(Digit \cup {","})), Opt(Cat(<<Ch({"."}),
      Rep(Ch(Digit), 2, 2)>>))>>))>>),
    \* r'Rs\.?\s*([0-9,]+(?:\.[0-9]{2})?)'
    Cat(<<Lit(<<"R","s">>), Opt(Ch({"."})), Star(Ch(SpaceChar)),
      Grp(Cat(<<Plus(Ch(Digit \cup {","})), Opt(Cat(<<Ch({"."}),
      Rep(Ch(Digit), 2, 2)>>))>>))>>),
    \* r'\$\s*([0-9,]+(?:\.[0-9]{2})?)'
    Cat(<<Ch({"$"}), Star(Ch(SpaceChar)),
      Grp(Cat(<<Plus(Ch(Digit \cup {","})), Opt(Cat(<<Ch({"."}),
      Rep(Ch(Digit), 2, 2)>>))>>))>>)
>>

txn_patterns == <<
    \* r'(?:TXN|TRANS|TRANSACTION)[_\s]*(?:ID|NUMBER)?[:\s]*([A-Z0-9]{8,20})'
    Cat(<<Alt(<<Lit(<<"T","X","N">>), Lit(<<"T","R","A","N","S">>),
      Lit(<<"T","R","A","N","S","A","C","T","I","O","N">>)>>),
      Star(Ch(SpaceChar \cup {"_"})), Opt(Alt(<<Lit(<<"I","D">>),
      Lit(<<"N","U","M","B","E","R">>)>>)), Star(Ch(SpaceChar \cup {":"})),
      Grp(Rep(Ch(UpperLetter \cup Digit), 8, 20))>>),
    \* r'(?:REF|REFERENCE)[_\s]*(?:ID|NUMBER)?[:\s]*([A-Z0-9]{8,20})'
    Cat(<<Alt(<<Lit(<<"R","E","F">>),
      Lit(<<"R","E","F","E","R","E","N","C","E">>)>>),
      Star(Ch(SpaceChar \cup {"_"})), Opt(Alt(<<Lit(<<"I","D">>),
      Lit(<<"N","U","M","B","E","R">>)>>)), Star(Ch(SpaceChar \cup {":"})),
      Grp(Rep(Ch(UpperLetter \cup Digit), 8, 20))>>),
    \* r'\b[A-Z]{3}[0-9]{10,}\b'
    Cat(<<WordBoundary, Rep(Ch(UpperLetter), 3, 3), AtLeast(Ch(Digit), 10),
      WordBoundary>>)
>>

account_patterns == <<
    \* r'(?:ACCOUNT|ACC)[_\s]*(?:NO|NUMBER)?[:\s]*([X\d]{4,20})'
    Cat(<<Alt(<<Lit(<<"A","C","C","O","U","N","T">>),
      Lit(<<"A","C","C">>)>>), Star(Ch(SpaceChar \cup {"_"})),
      Opt(Alt(<<Lit(<<"N","O">>), Lit(<<"N","U","M","B","E","R">>)>>)),
      Star(Ch(SpaceChar \cup {":"})), Grp(Rep(Ch(Digit \cup {"X"}), 4, 20))>>),
    \* r'\b\d{4}[-\s]?\d{4}[-\s]?\d{4}[-\s]?\d{4}\b'
    Cat(<<WordBoundary, Rep(Ch(Digit), 4, 4), Opt(Ch(SpaceChar \cup {"-"})),
      Rep(Ch(Digit), 4, 4), Opt(Ch(SpaceChar \cup {"-"})), Rep(Ch(Digit), 4,
      4), Opt(Ch(SpaceChar \cup {"-"})), Rep(Ch(Digit), 4, 4), WordBoundary>>)
>>

date_patterns == <<
    \* r'\d{4}-\d{2}-\d{2}'
    Cat(<<Rep(Ch(Digit), 4, 4), Ch({"-"}), Rep(Ch(Digit), 2, 2), Ch({"-"}),
      Rep(Ch(Digit), 2, 2)>>),
    \* r'\d{2}/\d{2}/\d{4}'
    Cat(<<Rep(Ch(Digit), 2, 2), Ch({"/"}), Rep(Ch(Digit), 2, 2), Ch({"/"}),
      Rep(Ch(Digit), 4, 4)>>),
    \* r'\d{2}-\d{2}-\d{4}'
    Cat(<<Rep(Ch(Digit), 2, 2), Ch({"-"}), Rep(Ch(Digit), 2, 2), Ch({"-"}),
      Rep(Ch(Digit), 4, 4)>>),
    \* r'(?:Jan|Feb|Mar|Apr|May|Jun|Jul|Aug|Sep|Oct|Nov|Dec)[a-z]*\s+\d{1,2},?\s+\d{4}'
    Cat(<<Alt(<<Lit(<<"J","a","n">>), Lit(<<"F","e","b">>),
      Lit(<<"M","a","r">>), Lit(<<"A","p","r">>), Lit(<<"M","a","y">>),
      Lit(<<"J","u","n">>), Lit(<<"J","u","l">>), Lit(<<"A","u","g">>),
      Lit(<<"S","e","p">>), Lit(<<"O","c","t">>), Lit(<<"N","o","v">>),
      Lit(<<"D","e","c">>)>>), Star(Ch(LowerLetter)), Plus(Ch(SpaceChar)),
      Rep(Ch(Digit), 1, 2), Opt(Ch({","})), Plus(Ch(SpaceChar)),
      Rep(Ch(Digit), 4, 4)>>)
>>

api_patterns == <<
    \* r'/api/v?\d*/[\w/\-]+'
    Cat(<<Lit(<<"/","a","p","i","/">>), Opt(Ch({"v"})), Star(Ch(Digit)),
      Ch({"/"}), Plus(Ch(WordChar \cup {"/", "-"}))>>),
    \* r'(?:GET|POST|PUT|DELETE|PATCH)\s+([\w/\-]+)'
    Cat(<<Alt(<<Lit(<<"G","E","T">>), Lit(<<"P","O","S","T">>),
      Lit(<<"P","U","T">>), Lit(<<"D","E","L","E","T","E">>),
      Lit(<<"P","A","T","C","H">>)>>), Plus(Ch(SpaceChar)),
      Grp(Plus(Ch(WordChar \cup {"/", "-"})))>>)
>>

error_patterns == <<
    \* r'(?:ERROR|ERR)[_\s]*(?:CODE)?[:\s]*([A-Z0-9_\-]{3,10})'
    Cat(<<Alt(<<Lit(<<"E","R","R","O","R">>), Lit(<<"E","R","R">>)>>),
      Star(Ch(SpaceChar \cup {"_"})), Opt(Lit(<<"C","O","D","E">>)),
      Star(Ch(SpaceChar \cup {":"})),
      Grp(Rep(Ch(UpperLetter \cup Digit \cup {"_", "-"}), 3, 10))>>),
    \* r'\b[45]\d{2}\b'
    Cat(<<WordBoundary, Ch({"4", "5"}), Rep(Ch(Digit), 2, 2), WordBoundary>>)
>>

\* r'\b(?:\d{1,3}\.){3}\d{1,3}\b'
ip_pattern ==
    Cat(<<WordBoundary, Rep(Cat(<<Rep(Ch(Digit), 1, 3), Ch({"."})>>), 3, 3),
      Rep(Ch(Digit), 1, 3), WordBoundary>>)

\* r'https?://[^\s<>"{}|\\^`\[\]]+'
url_pattern ==
    Cat(<<Lit(<<"h","t","t","p">>), Opt(Ch({"s"})), Lit(<<":","/","/">>),
      Plus(NotCh(SpaceChar \cup {"<", ">", "\"", "{", "}", "|", "\\", "^",
      Backtick, "[", "]"}))>>)

\* EntityExtractor._extract_financial_entities
_extract_financial_entities(text) ==
    [amounts         |-> ExtendWithMatches(amount_patterns, 1, text),
     transaction_ids |-> ExtendWithMatches(txn_patterns, 1, text),
     account_numbers |-> ExtendWithMatches(account_patterns, 1, text),
     dates           |-> ExtendWithMatches(date_patterns, 1, text)]

\* EntityExtractor._extract_technical_entities
_extract_technical_entities(text) ==
    [api_endpoints |-> ExtendWithMatches(api_patterns, 1, text),
     error_codes   |-> ExtendWithMatches(error_patterns, 1, text),
     ip_addresses  |-> findall(ip_pattern, text),
     urls          |-> findall(url_pattern, text)]

\* The words the NER service tagged with a group, in its order.
WordsOfGroup(ner_results, entity_group) ==
    LET tagged == SelectSeq(ner_results,
                            LAMBDA entity : entity.entity_group = entity_group)
    IN  [i \in 1..Len(tagged) |-> tagged[i].word]

\* EntityExtractor.extract_entities.  ner is the outcome of the call of
\* the NER pipeline: its list of entities, or the exception it raised,
\* which nothing catches.  list(set(...)) leaves each bucket without
\* duplicates and in no particular order: a set.
extract_entities(text, ner) ==
    IF ner.status = "raised" THEN Raised(ner.error)
    ELSE
        LET entities ==
                _extract_technical_entities(text)
                @@ _extract_financial_entities(text)
                @@ [organizations   |-> WordsOfGroup(ner.value, "ORG"),
                    persons         |-> WordsOfGroup(ner.value, "PER"),
                    locations       |-> WordsOfGroup(ner.value, "LOC"),
                    dates           |-> <<>>,
                    amounts         |-> <<>>,
                    transaction_ids |-> <<>>,
                    account_numbers |-> <<>>,
                    api_endpoints   |-> <<>>,
                    error_codes     |-> <<>>]
        IN  Returned([key \in DOMAIN entities |-> Range(entities[key])])

(***************************************************************************)
(* The entity extractor as a state machine: one call of extract_entities,  *)
(* the NER service answering or failing.                                   *)
(***************************************************************************)
MaxEntityPhrases == 2

EntityVocab == {
    <<"R","s","."," ","1",",","2","5","0",".","0","0">>,
    <<"₹","5","0","0">>,
    <<"T","X","N","2","0","2","5","0","1","1","5","0","0","1","2","3","4">>,
    <<"A","c","c",":"," ","X","X","X","X","1","2","3","4">>,
    <<"2","0","2","5","-","0","1","-","1","5">>,
    <<"P","O","S","T"," ","/","p","a","y","m","e","n","t">>,
    <<"E","R","R","_","T","I","M","E","O","U","T"," ","5","0","3">>,
    <<"1","0",".","0",".","0",".","1">>,
    <<"h","t","t","p","s",":","/","/","h","d","f","c",".","i","n","/","x">>,
    <<"H","D","F","C"," ","B","a","n","k">>
}

EntityTexts ==
    {Join(phrases, Space) : phrases \in SeqsUpTo(EntityVocab, MaxEntityPhrases)}

NEROutcomes == {
    Raised("RuntimeError"),
    Returned(<<>>),
    Returned(<<[entity_group |-> "ORG", word |-> <<"H","D","F","C"," ","B","a","n","k">>]>>),
    Returned(<<[entity_group |-> "ORG", word |-> <<"H","D","F","C"," ","B","a","n","k">>],
               [entity_group |-> "PER", word |-> <<"A","s","h","a">>],
               [entity_group |-> "LOC", word |-> <<"P","u","n","e">>],
               [entity_group |-> "MISC", word |-> <<"U","P","I">>],
               [entity_group |-> "ORG", word |-> <<"H","D","F","C"," ","B","a","n","k">>]>>)
}

InitExtract ==
    /\ pc = "call"
    /\ inp \in [op : {"extract_entities"}, text : EntityTexts]
    /\ out = NoResult
    /\ log = <<>>
    /\ store = <<>>

ExtractEntities ==
    /\ pc = "call"
    /\ inp.op = "extract_entities"
    /\ \E ner \in NEROutcomes :
          /\ log' = Append(log, [service |-> "ner_pipeline", response |-> ner])
          /\ out' = extract_entities(inp.text, ner)
    /\ pc' = "done"
    /\ UNCHANGED <<inp, store>>

NextExtract == ExtractEntities

SpecExtract == InitExtract /\ [][NextExtract]_vars

ExtractDone == pc = "done" /\ inp.op = "extract_entities"

\* What the NER service answered in this call.
NERResponse == log[Len(log)].response

\* The buckets the regular expressions fill, as sets.
RegexBuckets(text) ==
    LET found == _extract_technical_entities(text)
                 @@ _extract_financial_entities(text)
    IN  [key \in DOMAIN found |-> Range(found[key])]

\* C5: when the NER call raises, extract_entities still returns an entity
\* bundle, and the bundle holds the regex-derived buckets (amounts,
\* transaction_ids, account_numbers, dates, api_endpoints, error_codes,
\* ip_addresses, urls) computed from the text.
C5_Original_RegexBucketsSurviveNERFailure ==
    (ExtractDone /\ NERResponse.status = "raised") =>
        /\ out.status = "returned"
        /\ LET buckets == RegexBuckets(inp.text)
           IN  \A key \in DOMAIN buckets :
                   key \in DOMAIN out.value /\ out.value[key] = buckets[key]

(***************************************************************************)
(* chatbot/stakeholder_handler.py: filter_sources_by_role                  *)
(***************************************************************************)
doc_priorities == [
    product_lead       |-> <<"upi_transaction", "bank_api_response">>,
    tech_lead          |-> <<"bank_api_response", "upi_transaction">>,
    compliance_lead    |-> <<"compliance_report", "upi_transaction">>,
    bank_alliance_lead |-> <<"partnership_sla", "bank_api_response">>
]

\* list.index(x) counted from 0, for an x that is in the list
IndexOf(list, x) == (CHOOSE i \in 1..Len(list) : list[i] = x
                                               /\ \A j \in 1..(i - 1) : list[j] # x) - 1

\* get_priority, the sort key of filter_sources_by_role
get_priority(source, priorities) ==
    LET doc_type == IF "doc_type" \in DOMAIN source THEN source.doc_type ELSE ""
    IN  IF doc_type \in Range(priorities)
        THEN IndexOf(priorities, doc_type)
        ELSE Len(priorities)

\* sorted(sources, key=get_priority): a stable sort; each source goes
\* behind the sources already placed whose key is not greater.
RECURSIVE SortedByPriority(_, _, _)
SortedByPriority(sources, priorities, placed) ==
    IF Len(sources) = 0 THEN placed
    ELSE
        LET source == Head(sources)
            before == SelectSeq(placed, LAMBDA other :
                          get_priority(other, priorities)
                              <= get_priority(source, priorities))
            after == SelectSeq(placed, LAMBDA other :
                          get_priority(other, priorities)
                              > get_priority(source, priorities))
        IN  SortedByPriority(Tail(sources), priorities,
                             before \o <<source>> \o after)

\* The mutant of filter_sources_by_role: sources whose doc_type is not in
\* the role's list are left out.
filter_sources_by_role_dropping_unlisted(sources, stakeholder) ==
    LET priorities == IF stakeholder \in DOMAIN doc_priorities
                      THEN doc_priorities[stakeholder] ELSE <<>>
    IN  SortedByPriority(
            SelectSeq(sources, LAMBDA source :
                get_priority(source, priorities) < Len(priorities)),
            priorities, <<>>)

\* StakeholderHandler.filter_sources_by_role
filter_sources_by_role(sources, stakeholder) ==
    LET priorities == IF stakeholder \in DOMAIN doc_priorities
                      THEN doc_priorities[stakeholder] ELSE <<>>
    IN  SortedByPriority(sources, priorities, <<>>)

(***************************************************************************)
(* filter_sources_by_role as a state machine: one call on a list of        *)
(* sources and a role.                                                     *)
(***************************************************************************)
MaxSources == 3

\* Sources as _format_sources builds them: two of the same doc type, one
\* of each other type, one of no configured type and one without doc_type.
SourcePool == {
    [source |-> "txn_jan.pdf", doc_type |-> "upi_transaction"],
    [source |-> "txn_feb.pdf", doc_type |-> "upi_transaction"],
    [source |-> "api_log.json", doc_type |-> "bank_api_response"],
    [source |-> "audit.pdf", doc_type |-> "compliance_report"],
    [source |-> "hdfc_sla.pdf", doc_type |-> "partnership_sla"],
    [source |-> "notes.txt", doc_type |-> "unknown"],
    [source |-> "raw.txt"]
}

SourceLists == SeqsUpTo(SourcePool, MaxSources)

InitFilter ==
    /\ pc = "call"
    /\ inp \in [op : {"filter_sources_by_role"}, sources : SourceLists,
                stakeholder : Range(Roles) \cup {UnknownRole}]
    /\ out = NoResult
    /\ log = <<>>
    /\ store = <<>>

FilterSourcesByRole ==
    /\ pc = "call"
    /\ inp.op = "filter_sources_by_role"
    /\ out' = Returned(filter_sources_by_role(inp.sources, inp.stakeholder))
    /\ pc' = "done"
    /\ UNCHANGED <<inp, log, store>>

NextFilter == FilterSourcesByRole

SpecFilter == InitFilter /\ [][NextFilter]_vars

FilterDone == pc = "done" /\ inp.op = "filter_sources_by_role"

\* The index of a source's doc_type in the role's priority list, and the
\* length of the list for a doc_type that is not in it.
PriorityRank(source, stakeholder) ==
    LET list == IF stakeholder \in Range(Roles)
                THEN doc_priorities[stakeholder] ELSE <<>>
        listed == {i \in 1..Len(list) :
                      "doc_type" \in DOMAIN source /\ list[i] = source.doc_type}
    IN  IF listed = {} THEN Len(list)
        ELSE (CHOOSE i \in listed : \A j \in listed : i <= j) - 1

\* C13: filter_sources_by_role returns every input source exactly once, in
\* ascending order of the index of its doc_type in the role's priority
\* list; sources whose doc_type is not in the list come after all listed
\* ones, and sources of equal priority keep their input order.
C13_StableSortByRolePriority ==
    FilterDone =>
        /\ out.status = "returned"
        /\ Len(out.value) = Len(inp.sources)
        /\ \E p \in Permutations(1..Len(inp.sources)) :
              /\ \A i \in 1..Len(inp.sources) : out.value[i] = inp.sources[p[i]]
              /\ \A i, j \in 1..Len(inp.sources) :
                    i < j =>
                        LET ri == PriorityRank(inp.sources[p[i]], inp.stakeholder)
                            rj == PriorityRank(inp.sources[p[j]], inp.stakeholder)
                        IN  ri < rj \/ (ri = rj /\ p[i] < p[j])

\* An unlisted source given first and two sources of one type after it:
\* the unlisted one comes last and the two keep their order.
C13_Witness_UnlistedLastTiesKept ==
    /\ FilterDone
    /\ inp.stakeholder = "tech_lead"
    /\ inp.sources = <<[source |-> "raw.txt"],
                       [source |-> "txn_feb.pdf", doc_type |-> "upi_transaction"],
                       [source |-> "txn_jan.pdf", doc_type |-> "upi_transaction"]>>
    /\ out.value = <<[source |-> "txn_feb.pdf", doc_type |-> "upi_transaction"],
                     [source |-> "txn_jan.pdf", doc_type |-> "upi_transaction"],
                     [source |-> "raw.txt"]>>

(***************************************************************************)
(* vector_db/knowledge_base.py: process_and_index_document                 *)
(*                                                                         *)
(* A file is what the file system holds under a path: its name, its        *)
(* suffix and what reading its text gives.  The calls the pipeline makes   *)
(* to the classification model, the NER model, the text splitter, the      *)
(* embedding model and the index are answered by svc.                      *)
(***************************************************************************)
supported_extensions == {<<".","p","d","f">>, <<".","j","s","o","n">>, <<".","c","s","v">>}

\* PDFProcessor.process_document, which process_pdf delegates to.
process_document(file) ==
    LET file_extension == Lower(file.suffix)
    IN  IF file_extension \notin supported_extensions THEN Raised("ValueError")
        ELSE IF file.read.status = "raised" THEN Raised(file.read.error)
        ELSE Returned([page_content |-> file.read.value,
                       metadata |-> [source |-> file.path,
                                     filename |-> file.name,
                                     file_type |-> Tail(file_extension)]])

\* PDFProcessor.process_pdf
process_pdf(pdf_path) == process_document(pdf_path)

\* The names of the pipeline's stages, in the order of the code.
Stages == <<"text_extraction", "classification", "entity_extraction",
            "chunking", "embedding", "indexing">>

\* One executed stage: what it was given and how it ended.  The embedding
\* stage has one entry per chunk, as add_documents embeds them one by one.
StageRun(stage, given, outcome) == [stage |-> stage, given |-> given, outcome |-> outcome]

\* The mutant of ChunkDocs: the chunks are built without the parent's
\* metadata.
ChunkDocs_without_parent_metadata(document_metadata, chunks) ==
    [i \in 1..Len(chunks) |->
        [page_content |-> chunks[i],
         metadata |-> [chunk_index |-> i - 1, total_chunks |-> Len(chunks)]]]

\* The Document objects built for the chunks, with a copy of the parent's
\* metadata each.
ChunkDocs(document_metadata, chunks) ==
    [i \in 1..Len(chunks) |->
        [page_content |-> chunks[i],
         metadata |-> [chunk_index |-> i - 1, total_chunks |-> Len(chunks)]
                      @@ document_metadata]]

\* The stage entries add_documents leaves: the chunks embedded up to the
\* first failure, then the upsert if every embedding succeeded.
RECURSIVE EmbeddingRuns(_, _, _)
EmbeddingRuns(documents, failed, i) ==
    IF i > Len(documents) \/ (failed # 0 /\ i > failed) THEN <<>>
    ELSE <<StageRun("embedding", documents[i],
                    IF i = failed
                    THEN Raised(IF EmbedRaises(documents[i].page_content)
                                THEN "ValueError" ELSE "RuntimeError")
                    ELSE Returned("embedding"))>>
         \o EmbeddingRuns(documents, failed, i + 1)

AddDocumentsRuns(documents, embed_fails, added) ==
    LET failed == FirstEmbedFailure(documents, embed_fails)
    IN  EmbeddingRuns(documents, failed, 1)
        \o (IF failed = 0 THEN <<StageRun("indexing", documents, added)>> ELSE <<>>)

UpiDocumentText ==
    <<"U","P","I"," ","p","a","y","m","e","n","t"," ","t","r","a","n","s","f","e","r",
      " ","M","e","r","c","h","a","n","t"," ","₹","5","0","0">>

SlaDocumentText ==
    <<"S","L","A"," ","u","p","t","i","m","e"," ","c","o","n","t","r","a","c","t">>

File(path, name, suffix, read) ==
    [path |-> path, name |-> name, suffix |-> suffix, read |-> read]

\* The files handed to ingestion: documents the keyword rules decide, one
\* they leave to the model, one with blank text, one that cannot be read
\* and one of an unsupported type.
IngestFiles == {
    File("data/txn.pdf", "txn.pdf", <<".","p","d","f">>, Returned(UpiDocumentText)),
    File("data/hdfc_sla.PDF", "hdfc_sla.PDF", <<".","P","D","F">>, Returned(SlaDocumentText)),
    File("data/memo.json", "memo.json", <<".","j","s","o","n">>, Returned(<<"t","h","e">>)),
    File("data/blank.pdf", "blank.pdf", <<".","p","d","f">>, Returned(<<" ">>)),
    File("data/locked.pdf", "locked.pdf", <<".","p","d","f">>, Raised("PermissionError")),
    File("data/notes.txt", "notes.txt", <<".","t","x","t">>, Returned(<<"t","h","e">>))
}

\* EntityExtractor.extract_entities on the texts of the files, worked out
\* once for each text and each answer of the NER model.
EntitiesExtracted ==
    [text \in {file.read.value : file \in {file \in IngestFiles : file.read.status = "returned"}},
     ner \in NEROutcomes |-> extract_entities(text, ner)]

\* The except branch of process_and_index_document.
IngestFailure(file_path, e) ==
    [success |-> FALSE, filename |-> file_path.name, error |-> e]

\* process_and_index_document is written as one operator per step, each
\* taking what the steps before it produced: index, file_path, namespace
\* and svc are the arguments of the call, run holds the stages run so far.

\* The end of process_and_index_document, after add_documents.
AfterIndexing(index, file_path, classification, entities, chunks, run, added) ==
    IF added[1].status = "raised"
    THEN <<IngestFailure(file_path, added[1].error), added[2], run>>
    ELSE <<[success |-> TRUE,
            filename |-> file_path.name,
            doc_type |-> classification.doc_type,
            confidence |-> classification.confidence,
            chunks_created |-> Len(chunks),
            chunks_indexed |-> added[1].value.documents_added,
            entities |-> [k \in {k \in DOMAIN entities : entities[k] # {}} |->
                             Cardinality(entities[k])]],
           added[2], run>>

\* Step 6: add_documents, with its embeddings and its upsert.
IndexChunks(index, file_path, namespace, svc, classification, entities, chunks, chunk_docs, run, added) ==
    AfterIndexing(index, file_path, classification, entities, chunks,
                  run \o AddDocumentsRuns(chunk_docs, svc.embed_fails, added[1]),
                  added)

\* Step 4, the metadata of the document once classified.
UpdatedMetadata(document, classification, entities) ==
    [doc_type |-> classification.doc_type,
     confidence |-> classification.confidence,
     stakeholder_relevance |-> classification.stakeholder_relevance,
     entities |-> entities]
    @@ document.metadata

\* Step 5 done: the Document objects of the chunks go to add_documents.
AfterChunking(index, file_path, namespace, svc, classification, entities, chunks, chunk_docs, run) ==
    IndexChunks(index, file_path, namespace, svc, classification, entities, chunks,
                chunk_docs, run,
                add_documents(index, chunk_docs, namespace, svc.embed_fails,
                              svc.upsert_ok))

\* Steps 4 and 5: the metadata update and the chunking.
ChunkAndIndex(index, file_path, namespace, svc, document, classification, entities, run) ==
    IF svc.split.status = "raised"
    THEN <<IngestFailure(file_path, svc.split.error), index,
           Append(run, StageRun("chunking", document.page_content, svc.split))>>
    ELSE AfterChunking(index, file_path, namespace, svc, classification, entities,
                       svc.split.value,
                       ChunkDocs(UpdatedMetadata(document, classification, entities),
                                 svc.split.value),
                       Append(run, StageRun("chunking", document.page_content,
                                            svc.split)))

\* The mutant of AfterEntityExtraction: a failed entity extraction is
\* passed over and the document is indexed whole, without entities.
AfterEntityExtraction_despite_failure(index, file_path, namespace, svc, document, classification, run, extraction) ==
    ChunkAndIndex(index, file_path, namespace,
                  IF extraction.status = "raised"
                  THEN [svc EXCEPT !.split = Returned(<<document.page_content>>)]
                  ELSE svc,
                  document, classification,
                  IF extraction.status = "raised" THEN <<>> ELSE extraction.value,
                  Append(run, StageRun("entity_extraction", document.page_content,
                                       extraction)))

\* Step 3 done: extraction is what extract_entities gave.
AfterEntityExtraction(index, file_path, namespace, svc, document, classification, run, extraction) ==
    IF extraction.status = "raised"
    THEN <<IngestFailure(file_path, extraction.error), index,
           Append(run, StageRun("entity_extraction", document.page_content,
                                extraction))>>
    ELSE ChunkAndIndex(index, file_path, namespace, svc, document, classification,
                       extraction.value,
                       Append(run, StageRun("entity_extraction",
                                            document.page_content, extraction)))

\* Step 2 done: classified is what classify_document gave.
AfterClassification(index, file_path, namespace, svc, document, run, classified) ==
    IF classified.status = "raised"
    THEN <<IngestFailure(file_path, classified.error), index,
           Append(run, StageRun("classification", document.page_content, classified))>>
    ELSE AfterEntityExtraction(index, file_path, namespace, svc, document,
                               classified.value,
                               Append(run, StageRun("classification",
                                                    document.page_content, classified)),
                               EntitiesExtracted[document.page_content, svc.ner])

\* Step 1 done: extracted is what process_pdf gave.
AfterTextExtraction(index, file_path, namespace, svc, extracted) ==
    IF extracted.status = "raised"
    THEN <<IngestFailure(file_path, extracted.error), index,
           <<StageRun("text_extraction", file_path.path, extracted)>>>>
    ELSE AfterClassification(index, file_path, namespace, svc, extracted.value,
                             <<StageRun("text_extraction", file_path.path, extracted)>>,
                             classify_document(extracted.value.page_content, <<>>,
                                               svc.ml))

\* KnowledgeBase.process_and_index_document on the index.  The result is
\* <<result, index afterwards, stages run>>.
process_and_index_document(index, file_path, namespace, svc) ==
    AfterTextExtraction(index, file_path, namespace, svc, process_pdf(file_path))

(***************************************************************************)
(* chatbot/chatbot.py: PaymentChatbot.chat, with the helpers of            *)
(* query_router.py and stakeholder_handler.py it calls.                    *)
(***************************************************************************)
\* QueryRouter.get_doc_type_priority
get_doc_type_priority(stakeholder) ==
    LET priorities == [
            product_lead       |-> <<"upi_transaction", "bank_api_response">>,
            tech_lead          |-> <<"bank_api_response", "upi_transaction">>,
            compliance_lead    |-> <<"compliance_report", "upi_transaction">>,
            bank_alliance_lead |-> <<"partnership_sla", "bank_api_response">>]
    IN  IF stakeholder \in DOMAIN priorities
        THEN priorities[stakeholder] ELSE <<"upi_transaction">>

\* The table of QueryRouter.get_stakeholder_context.
contexts == [
    product_lead |-> [
        focus |-> "business metrics, user behavior, product performance",
        concerns |-> "transaction success rates, user adoption, growth trends",
        tone |-> "data-driven and business-focused",
        avoid |-> "technical API details, compliance regulations, infrastructure",
        preferred_docs |-> <<"upi_transaction">>],
    tech_lead |-> [
        focus |-> "technical implementation, system performance, API integrations",
        concerns |-> "API reliability, error handling, system architecture",
        tone |-> "technical and solution-oriented",
        avoid |-> "business metrics, compliance details, partnership agreements",
        preferred_docs |-> <<"bank_api_response">>],
    compliance_lead |-> [
        focus |-> "regulatory requirements, risk management, audit trails",
        concerns |-> "compliance violations, fraud detection, policy adherence",
        tone |-> "formal and risk-aware",
        avoid |-> "technical implementation, business growth, infrastructure",
        preferred_docs |-> <<"compliance_report">>],
    bank_alliance_lead |-> [
        focus |-> "partner relationships, SLA performance, contractual obligations",
        concerns |-> "partner health, service quality, relationship management",
        tone |-> "relationship-focused and diplomatic",
        avoid |-> "internal technical details, compliance procedures, product features",
        preferred_docs |-> <<"partnership_sla", "bank_api_response">>]
]

\* QueryRouter.get_stakeholder_context
get_stakeholder_context(stakeholder) ==
    IF stakeholder \in DOMAIN contexts
    THEN contexts[stakeholder] ELSE contexts["product_lead"]

\* The prefixes of StakeholderHandler.enhance_query.
enhancements == [
    \* 'As a Product Lead focused on business metrics and user behavior: '
    product_lead |-> <<
        "A","s"," ","a"," ","P","r","o","d","u","c","t"," ","L","e","a","d"," ","f","o","c","u","s","e",
        "d"," ","o","n"," ","b","u","s","i","n","e","s","s"," ","m","e","t","r","i","c","s"," ","a","n",
        "d"," ","u","s","e","r"," ","b","e","h","a","v","i","o","r",":"," ">>,
    \* 'As a Technical Lead focused on APIs and system implementation: '
    tech_lead |-> <<
        "A","s"," ","a"," ","T","e","c","h","n","i","c","a","l"," ","L","e","a","d"," ","f","o","c","u",
        "s","e","d"," ","o","n"," ","A","P","I","s"," ","a","n","d"," ","s","y","s","t","e","m"," ","i",
        "m","p","l","e","m","e","n","t","a","t","i","o","n",":"," ">>,
    \* 'As a Compliance Lead focused on regulations and risk management: '
    compliance_lead |-> <<
        "A","s"," ","a"," ","C","o","m","p","l","i","a","n","c","e"," ","L","e","a","d"," ","f","o","c",
        "u","s","e","d"," ","o","n"," ","r","e","g","u","l","a","t","i","o","n","s"," ","a","n","d"," ",
        "r","i","s","k"," ","m","a","n","a","g","e","m","e","n","t",":"," ">>,
    \* 'As a Bank Alliance Lead focused on partnerships and SLAs: '
    bank_alliance_lead |-> <<
        "A","s"," ","a"," ","B","a","n","k"," ","A","l","l","i","a","n","c","e"," ","L","e","a","d"," ",
        "f","o","c","u","s","e","d"," ","o","n"," ","p","a","r","t","n","e","r","s","h","i","p","s"," ",
        "a","n","d"," ","S","L","A","s",":"," ">>
]

IsLetter(c) == c \in UpperLetter \cup LowerLetter

\* str.replace for single characters
ReplaceChar(s, old, new) == [i \in 1..Len(s) |-> IF s[i] = old THEN new ELSE s[i]]

\* str.title(): a letter is upper case after a character that is not a
\* letter and lower case after a letter.
Title(s) ==
    [i \in 1..Len(s) |->
        IF i = 1 \/ ~IsLetter(s[i - 1]) THEN UpperChar(s[i]) ELSE LowerChar(s[i])]

\* The characters of a role identifier, known to the tables or not.
IdentifierChars(stakeholder) ==
    IF stakeholder \in DOMAIN RoleChars THEN RoleChars[stakeholder]
    ELSE <<"a","d","m","i","n">>

EnhanceSuffixHead == <<
    "\n","\n","A","n","s","w","e","r"," ","O","N","L","Y"," ","f","r","o","m"," ","t","h","e"," ">>

EnhanceSuffixTail == <<
    "'","s"," ","p","e","r","s","p","e","c","t","i","v","e","."," ","I","g","n","o","r","e"," ","i",
    "n","f","o","r","m","a","t","i","o","n"," ","o","u","t","s","i","d","e"," ","y","o","u","r"," ",
    "d","o","m","a","i","n",".">>

\* StakeholderHandler.enhance_query
enhance_query(query, stakeholder) ==
    LET prefix == IF stakeholder \in DOMAIN enhancements
                  THEN enhancements[stakeholder] ELSE <<>>
        suffix == EnhanceSuffixHead
                  \o Title(ReplaceChar(IdentifierChars(stakeholder), "_", " "))
                  \o EnhanceSuffixTail
    IN  prefix \o query \o suffix

\* The mutant of format_response: an answer outside the role's boundaries is
\* withheld.
format_response_withholding_unaligned(response, sources, stakeholder) ==
    LET is_relevant == validate_response_relevance(response, stakeholder)
    IN  [answer |-> IF is_relevant THEN response ELSE <<>>,
         stakeholder |-> stakeholder,
         sources |-> sources,
         source_count |-> Len(sources),
         role_adherence |-> is_relevant]

\* StakeholderHandler.format_response
format_response(response, sources, stakeholder) ==
    LET is_relevant == validate_response_relevance(response, stakeholder)
    IN  [answer |-> response,
         stakeholder |-> stakeholder,
         sources |-> sources,
         source_count |-> Len(sources),
         role_adherence |-> is_relevant]

ChatErrorAnswer == <<
    "I"," ","e","n","c","o","u","n","t","e","r","e","d"," ","a","n"," ","e","r","r","o","r"," ","p",
    "r","o","c","e","s","s","i","n","g"," ","y","o","u","r"," ","q","u","e","s","t","i","o","n",".",
    " ","P","l","e","a","s","e"," ","t","r","y"," ","r","e","p","h","r","a","s","i","n","g"," ","o",
    "r"," ","c","o","n","t","a","c","t"," ","s","u","p","p","o","r","t",".">>

\* The except branch of chat.
ChatFailure(user_role, e) ==
    [success |-> FALSE,
     error |-> e,
     answer |-> ChatErrorAnswer,
     stakeholder |-> IF Truthy(user_role) THEN user_role ELSE "product_lead",
     confidence |-> Frac(0, 1),
     sources |-> <<>>,
     context_used |-> 0]

\* Steps 3 to 7 of chat, on the documents retrieved.
ChatAnswer(query, stakeholder, context, context_docs, http) ==
    LET filtered_docs == filter_sources_by_role(context_docs, stakeholder)
        enhanced_query == enhance_query(query, stakeholder)
        generated == generate_response(enhanced_query, filtered_docs, stakeholder, http)
    IN  IF generated.status = "raised" THEN generated
        ELSE
    LET response == IF generated.value.success
                    THEN [role_adherence |->
                             validate_response_relevance(generated.value.answer,
                                                         stakeholder)]
                         @@ generated.value
                    ELSE generated.value
        formatted_response == format_response(response.answer, response.sources,
                                              stakeholder)
    IN  Returned([success |-> response.success,
                  answer |-> formatted_response.answer,
                  stakeholder |-> stakeholder,
                  confidence |-> response.confidence,
                  sources |-> formatted_response.sources,
                  context_used |-> response.context_used,
                  role_adherence |-> formatted_response.role_adherence,
                  stakeholder_context |-> [focus |-> context.focus,
                                           concerns |-> context.concerns,
                                           avoided_topics |-> context.avoid]])

\* The body of the try block of chat: the role is chosen, the documents
\* retrieved, and the answer made from them.
ChatBody(index, query, user_role, top_k, ranking, http) ==
    LET stakeholder == route_query(query, user_role)
        context == get_stakeholder_context(stakeholder)
        context_docs == knowledge_base_query(index, query, stakeholder, top_k, "",
                                             ranking)
    IN  IF context_docs.status = "raised" THEN context_docs
        ELSE ChatAnswer(query, stakeholder, context, context_docs.value, http)

\* The mutant of chat: without the except branch, a failure of the body
\* reaches the caller.
chat_without_except(index, query, user_role, top_k, ranking, http) ==
    ChatBody(index, query, user_role, top_k, ranking, http)

\* PaymentChatbot.chat
chat(index, query, user_role, top_k, ranking, http) ==
    LET body == ChatBody(index, query, user_role, top_k, ranking, http)
    IN  IF body.status = "raised"
        THEN Returned(ChatFailure(user_role, body.error))
        ELSE body

(***************************************************************************)
(* The knowledge base as the two entry points use it: one call of          *)
(* process_and_index_document or of chat, on an index that earlier         *)
(* ingestions have filled.                                                 *)
(***************************************************************************)
\* A call the pipeline did not get to.
NotCalled == [status |-> "not_called"]

FirstSpace(text) ==
    LET at == {i \in 1..Len(text) : text[i] = " "}
    IN  IF at = {} THEN 0 ELSE CHOOSE i \in at : \A j \in at : i <= j

\* What the text splitter may answer: no chunk for a blank text, else the
\* text as one chunk or cut at a space into two, or a failure.
SplitOutcomes(text) ==
    {Raised("RuntimeError")}
    \cup (IF EmbedRaises(text) THEN {Returned(<<>>)}
          ELSE {Returned(<<text>>)}
               \cup (IF FirstSpace(text) > 1 /\ FirstSpace(text) < Len(text)
                     THEN {Returned(<<SubSeq(text, 1, FirstSpace(text) - 1),
                                      SubSeq(text, FirstSpace(text) + 1, Len(text))>>)}
                     ELSE {}))

\* The answers of the services to one call of process_and_index_document,
\* for the calls the pipeline gets to.
IngestServices(file) ==
    LET extracted == process_pdf(file)
        none == [ml |-> NotCalled, ner |-> NotCalled, split |-> NotCalled,
                 embed_fails |-> 0, upsert_ok |-> TRUE]
    IN  IF extracted.status = "raised" THEN {none}
        ELSE UNION {
            IF ml.status = "raised" THEN {[none EXCEPT !.ml = ml]}
            ELSE UNION {
                IF ner.status = "raised" THEN {[none EXCEPT !.ml = ml, !.ner = ner]}
                ELSE UNION {
                    IF split.status = "raised"
                    THEN {[none EXCEPT !.ml = ml, !.ner = ner, !.split = split]}
                    ELSE {[ml |-> ml, ner |-> ner, split |-> split,
                           embed_fails |-> embed_fails, upsert_ok |-> upsert_ok] :
                             embed_fails \in 0..Len(split.value),
                             upsert_ok \in BOOLEAN}
                    : split \in SplitOutcomes(extracted.value.page_content)}
                : ner \in NEROutcomes}
            : ml \in MLOutcomes}

\* The index before the call: empty, or holding the chunks of two
\* classified documents and one untagged document.
InitialIndexes == {
    <<>>,
    add_documents(<<>>,
                  <<ClassifiedChunk(<<"U","P","I"," ","p","a","y","m","e","n","t"," ","f","a","i","l","e","d">>,
                                    "transactions.pdf", "upi_transaction"),
                    ClassifiedChunk(<<"S","L","A"," ","u","p","t","i","m","e"," ","9","9",".","9">>,
                                    "hdfc_sla.pdf", "partnership_sla"),
                    [page_content |-> <<"r","e","l","e","a","s","e"," ","n","o","t","e","s">>,
                     metadata |-> [source |-> "notes.txt"]]>>,
                  "", 0, TRUE)[2]
}

InitPipeline ==
    /\ pc = "idle"
    /\ inp = [op |-> "none"]
    /\ out = NoResult
    /\ log = <<>>
    /\ store \in InitialIndexes

\* One call of KnowledgeBase.process_and_index_document.
ProcessAndIndexDocument ==
    /\ pc = "idle"
    /\ \E file_path \in IngestFiles, namespace \in Namespaces :
        \E svc \in IngestServices(file_path) :
          \E r \in {process_and_index_document(store, file_path, namespace, svc)} :
              /\ out' = Returned(r[1])
              /\ store' = r[2]
              /\ log' = r[3]
              /\ inp' = [op |-> "process_and_index_document",
                         file_path |-> file_path, namespace |-> namespace,
                         index |-> store]
    /\ pc' = "done"

\* The questions put to chat: one with role keywords, one with none, the
\* empty one and a blank one.
ChatQueries == {SlaUptimeHdfcQuery, <<"h","e","l","l","o">>, <<>>, <<" ">>}

\* One call of PaymentChatbot.chat.  The index answers the search with
\* ranking, and the generation service the request with http.
Chat ==
    /\ pc = "idle"
    /\ \E query \in ChatQueries, user_role \in {None, "tech_lead", UnknownRole},
          top_k \in 1..MaxTopK :
        \E ranking \in Rankings(store, ""), http \in HttpOutcomes :
          /\ out' = chat(store, query, user_role, top_k, ranking, http)
          /\ inp' = [op |-> "chat", query |-> query, user_role |-> user_role,
                     top_k |-> top_k, index |-> store]
          /\ log' = [ranking |-> ranking, http |-> http]
    /\ pc' = "done"
    /\ UNCHANGED store

NextPipeline == ProcessAndIndexDocument \/ Chat

SpecPipeline == InitPipeline /\ [][NextPipeline]_vars

IngestDone == pc = "done" /\ inp.op = "process_and_index_document"

\* The roles whose configured doc_types list the type.
RolesPreferring(doc_type) ==
    {role \in DOMAIN STAKEHOLDER_CONFIG :
        doc_type \in Range(STAKEHOLDER_CONFIG[role].doc_types)}

\* The Document objects the call built for its chunks: those it embedded
\* and those it handed to the upsert.
ChunkDocsBuilt ==
    {log[i].given : i \in {i \in DOMAIN log : log[i].stage = "embedding"}}
    \cup UNION {Range(log[i].given) : i \in {i \in DOMAIN log : log[i].stage = "indexing"}}

\* The classification result of the call, when the stage succeeded.
Classified ==
    \E i \in DOMAIN log : /\ log[i].stage = "classification"
                          /\ log[i].outcome.status = "returned"

Classification ==
    log[CHOOSE i \in DOMAIN log : log[i].stage = "classification"].outcome.value

StageRank(stage) == CHOOSE k \in DOMAIN Stages : Stages[k] = stage

\* The stage that failed, if one did: 0 if none.
FailedRun ==
    LET failed == {i \in DOMAIN log : log[i].outcome.status = "raised"}
    IN  IF failed = {} THEN 0 ELSE CHOOSE i \in failed : TRUE

\* C16: the stages of a call of process_and_index_document run in the
\* order text extraction, classification, entity extraction, chunking,
\* embedding, indexing, none skipped (the embedding has nothing to do when
\* there is no chunk), each at most once and each chunk embedded once; a
\* stage that fails is the last one run, and the result then has
\* success = FALSE, the file name and the error, while a call in which no
\* stage fails runs through indexing and reports success.
C16_StagesInOrderFailureStopsPipeline ==
    IngestDone =>
        /\ Len(log) >= 1
        /\ log[1].stage = "text_extraction"
        /\ \A i \in DOMAIN log : log[i].stage \in Range(Stages)
        /\ \A i, j \in DOMAIN log :
               i < j =>
                   \/ StageRank(log[i].stage) < StageRank(log[j].stage)
                   \/ /\ log[i].stage = "embedding"
                      /\ log[j].stage = "embedding"
                      /\ log[i].given.metadata.chunk_index
                             < log[j].given.metadata.chunk_index
        /\ \A i \in DOMAIN log :
               i < Len(log) =>
                   \/ StageRank(log[i + 1].stage) <= StageRank(log[i].stage) + 1
                   \/ /\ log[i].stage = "chunking"
                      /\ log[i].outcome.value = <<>>
                      /\ log[i + 1].stage = "indexing"
        /\ \A i \in DOMAIN log : log[i].outcome.status = "raised" => i = Len(log)
        /\ FailedRun # 0 =>
               /\ out.status = "returned"
               /\ out.value.success = FALSE
               /\ out.value.filename = inp.file_path.name
               /\ out.value.error = log[FailedRun].outcome.error
               /\ DOMAIN out.value = {"success", "filename", "error"}
        /\ FailedRun = 0 =>
               /\ log[Len(log)].stage = "indexing"
               /\ out.status = "returned"
               /\ out.value.success = TRUE

\* The NER model fails on a readable, classified document: the entity
\* extraction is the third and last stage run, nothing is indexed, and the
\* result names the file and the error.
C16_Witness_ExtractionFailureStopsThere ==
    /\ IngestDone
    /\ inp.file_path.name = "txn.pdf"
    /\ Len(log) = 3
    /\ log[1].stage = "text_extraction" /\ log[1].outcome.status = "returned"
    /\ log[2].stage = "classification" /\ log[2].outcome.status = "returned"
    /\ log[3].stage = "entity_extraction" /\ log[3].outcome.status = "raised"
    /\ out.value = [success |-> FALSE, filename |-> "txn.pdf", error |-> "RuntimeError"]
    /\ store = inp.index

\* The vectors the call added to the index.
Upserted == DOMAIN store \ DOMAIN inp.index

\* ','.join(roles)
CommaJoined(roles) ==
    Join([i \in 1..Len(roles) |-> RoleChars[roles[i]]], <<",">>)

\* C17: in a call of process_and_index_document every chunk handed to the
\* embedding already carries the doc_type, the confidence and the
\* stakeholder_relevance of the classification, and every vector the call
\* adds to the index carries the parent's doc_type and its relevant roles
\* joined by commas.
C17_VectorsCarryParentClassification ==
    IngestDone =>
        /\ \A i \in DOMAIN log :
               log[i].stage = "embedding" =>
                   /\ Classified
                   /\ {"doc_type", "confidence", "stakeholder_relevance"}
                          \subseteq DOMAIN log[i].given.metadata
                   /\ log[i].given.metadata.doc_type = Classification.doc_type
                   /\ log[i].given.metadata.confidence = Classification.confidence
                   /\ log[i].given.metadata.stakeholder_relevance
                          = Classification.stakeholder_relevance
        /\ \A id \in Upserted :
               /\ Classified
               /\ store[id].metadata.doc_type = Classification.doc_type
               /\ "stakeholders" \in DOMAIN store[id].metadata
               /\ store[id].metadata.stakeholders
                      = CommaJoined(Classification.stakeholder_relevance)

\* A document the model classified as bank_api_response with a low score is
\* indexed: its vector is tagged with that type and the three roles.
C17_Witness_ModelClassifiedVectorTagged ==
    /\ IngestDone
    /\ inp.file_path.name = "memo.json"
    /\ out.value.success
    /\ Classified
    /\ Classification.classification_method = "ml_based"
    /\ Classification.confidence < 50
    /\ Cardinality(Upserted) = 1
    /\ \A id \in Upserted :
           /\ store[id].metadata.doc_type = "bank_api_response"
           /\ store[id].metadata.stakeholders
                  = <<"p","r","o","d","u","c","t","_","l","e","a","d",",",
                      "t","e","c","h","_","l","e","a","d",",",
                      "b","a","n","k","_","a","l","l","i","a","n","c","e","_","l","e","a","d">>

(***************************************************************************)
(* Batch runs: KnowledgeBase.process_directory and                         *)
(* scripts/index_existing_docs.py: index_data_folder.  Each is a loop over *)
(* the PDF files found; one step of the model is one turn of the loop.     *)
(***************************************************************************)
MaxDirFiles == 3

\* Listings of a directory: files of the pool in any order, none twice.
Listings ==
    {files \in SeqsUpTo(IngestFiles, MaxDirFiles) :
        \A i, j \in DOMAIN files : i # j => files[i] # files[j]}

\* A directory that does not exist.
MissingDirectory == [exists |-> FALSE, files |-> <<>>]

\* directory.glob("*.pdf")
GlobPdf(directory) ==
    SelectSeq(directory.files, LAMBDA file : file.suffix = <<".","p","d","f">>)

\* The answers of the services in a batch run: the model and the NER model
\* answer or fail, the splitter gives one chunk or none, the embedding and
\* the upsert succeed or fail.
BatchServices(file) ==
    {svc \in IngestServices(file) :
        /\ svc.ml \in {NotCalled, Raised("ConnectionError"),
                       Returned(<<"compliance_report", 97>>)}
        /\ svc.ner \in {NotCalled, Raised("RuntimeError"), Returned(<<>>)}
        /\ svc.split.status # "raised"
        /\ svc.split.status = "returned" => Len(svc.split.value) <= 1}

\* The mutant of MoreFiles: the loop stops at the first failed document.
MoreFiles_until_first_failure(frame) ==
    /\ Len(frame.attempted) < Len(frame.pdf_files)
    /\ \A i \in DOMAIN frame.results : frame.results[i].success

\* for pdf_path in pdf_files: the loop goes on while a file found has not
\* been attempted.
MoreFiles(frame) == Len(frame.attempted) < Len(frame.pdf_files)

InitBatch ==
    /\ pc = "idle"
    /\ inp = [op |-> "none"]
    /\ out = NoResult
    /\ log = <<>>
    /\ store = <<>>

\* process_directory up to its loop: a missing directory gives the empty
\* list at once.
ProcessDirectoryCalled ==
    /\ pc = "idle"
    /\ \E directory_path \in {[exists |-> TRUE, files |-> files] : files \in Listings}
                             \cup {MissingDirectory},
          namespace \in Namespaces :
          /\ inp' = [op |-> "process_directory", directory_path |-> directory_path,
                     namespace |-> namespace]
          /\ IF ~directory_path.exists
             THEN /\ pc' = "done"
                  /\ out' = Returned(<<>>)
                  /\ log' = [pdf_files |-> <<>>, attempted |-> <<>>, results |-> <<>>]
             ELSE /\ pc' = "loop"
                  /\ out' = NoResult
                  /\ log' = [pdf_files |-> GlobPdf(directory_path),
                             attempted |-> <<>>, results |-> <<>>]
    /\ UNCHANGED store

\* One turn of the loop of process_directory.
ProcessDirectoryTurn ==
    /\ pc = "loop"
    /\ inp.op = "process_directory"
    /\ MoreFiles(log)
    /\ LET pdf_path == log.pdf_files[Len(log.attempted) + 1]
       IN  \E svc \in BatchServices(pdf_path) :
               \E r \in {process_and_index_document(store, pdf_path, inp.namespace, svc)} :
                   /\ log' = [log EXCEPT !.attempted = Append(@, pdf_path),
                                         !.results = Append(@, r[1])]
                   /\ store' = r[2]
    /\ UNCHANGED <<pc, inp, out>>

\* The loop of process_directory is over: the successes are counted and
\* the results returned.
ProcessDirectoryReturns ==
    /\ pc = "loop"
    /\ inp.op = "process_directory"
    /\ ~MoreFiles(log)
    /\ log' = [successful |-> Len(SelectSeq(log.results, LAMBDA r : r.success))]
              @@ log
    /\ out' = Returned(log.results)
    /\ pc' = "done"
    /\ UNCHANGED <<inp, store>>

\* index_data_folder up to its loop: it returns at once when data/ is
\* missing or holds no PDF.
IndexDataFolderCalled ==
    /\ pc = "idle"
    /\ \E data_dir \in {[exists |-> TRUE, files |-> files] : files \in Listings}
                       \cup {MissingDirectory} :
          LET pdf_files == GlobPdf(data_dir)
          IN  /\ inp' = [op |-> "index_data_folder", data_dir |-> data_dir]
              /\ IF ~data_dir.exists \/ pdf_files = <<>>
                 THEN /\ pc' = "done"
                      /\ out' = Returned(None)
                      /\ log' = [pdf_files |-> pdf_files, attempted |-> <<>>,
                                 results |-> <<>>]
                 ELSE /\ pc' = "loop"
                      /\ out' = NoResult
                      /\ log' = [pdf_files |-> pdf_files, attempted |-> <<>>,
                                 results |-> <<>>, successful |-> 0, failed |-> 0]
    /\ UNCHANGED store

\* One turn of the loop of index_data_folder.
IndexDataFolderTurn ==
    /\ pc = "loop"
    /\ inp.op = "index_data_folder"
    /\ MoreFiles(log)
    /\ LET pdf_file == log.pdf_files[Len(log.attempted) + 1]
       IN  \E svc \in BatchServices(pdf_file) :
               \E r \in {process_and_index_document(store, pdf_file, "", svc)} :
                   /\ log' = [log EXCEPT
                                 !.attempted = Append(@, pdf_file),
                                 !.results = Append(@, r[1]),
                                 !.successful = IF r[1].success THEN @ + 1 ELSE @,
                                 !.failed = IF r[1].success THEN @ ELSE @ + 1]
                   /\ store' = r[2]
    /\ UNCHANGED <<pc, inp, out>>

\* The loop of index_data_folder is over: the tallies are logged.
IndexDataFolderReturns ==
    /\ pc = "loop"
    /\ inp.op = "index_data_folder"
    /\ ~MoreFiles(log)
    /\ out' = Returned(None)
    /\ pc' = "done"
    /\ UNCHANGED <<inp, log, store>>

NextBatch ==
    \/ ProcessDirectoryCalled
    \/ ProcessDirectoryTurn
    \/ ProcessDirectoryReturns
    \/ IndexDataFolderCalled
    \/ IndexDataFolderTurn
    \/ IndexDataFolderReturns

SpecBatch == InitBatch /\ [][NextBatch]_vars

BatchDone == pc = "done" /\ inp.op \in {"process_directory", "index_data_folder"}

\* The PDF files the run found.
FilesFound ==
    GlobPdf(IF inp.op = "process_directory" THEN inp.directory_path ELSE inp.data_dir)

Successes == Len(SelectSeq(log.results, LAMBDA r : r.success))
Failures == Len(SelectSeq(log.results, LAMBDA r : ~r.success))

\* C18: in a batch run every PDF file found is attempted exactly once, in
\* the order found and whatever happened to the files before it; there is
\* one result per file, carrying its name; and the successes and failures
\* tallied add up to the number of files.
C18_EveryFileAttemptedAndTallied ==
    /\ (pc = "loop" /\ inp.op \in {"process_directory", "index_data_folder"}) =>
           /\ log.pdf_files = FilesFound
           /\ log.attempted = SubSeq(FilesFound, 1, Len(log.attempted))
           /\ Len(log.results) = Len(log.attempted)
    /\ BatchDone =>
           /\ log.attempted = FilesFound
           /\ Len(log.results) = Len(FilesFound)
           /\ \A i \in DOMAIN log.results :
                  log.results[i].filename = FilesFound[i].name
           /\ Successes + Failures = Len(FilesFound)
           /\ "successful" \in DOMAIN log => log.successful = Successes
           /\ "failed" \in DOMAIN log =>
                  /\ log.failed = Failures
                  /\ log.successful + log.failed = Len(FilesFound)
           /\ (inp.op = "process_directory" /\ inp.directory_path.exists) =>
                  /\ out = Returned(log.results)
                  /\ log.successful + Failures = Len(FilesFound)

\* index_data_folder finds an unreadable PDF before a good one: the first
\* fails, the second is still indexed, and the tallies are one and one.
C18_Witness_FailureThenSuccess ==
    /\ BatchDone
    /\ inp.op = "index_data_folder"
    /\ Len(FilesFound) = 2
    /\ FilesFound[1].name = "locked.pdf"
    /\ FilesFound[2].name = "txn.pdf"
    /\ ~log.results[1].success
    /\ log.results[2].success
    /\ log.successful = 1
    /\ log.failed = 1
    /\ Cardinality(DOMAIN store) = 1

(***************************************************************************)
(* Concurrent callers of the index.  Each caller is in add_documents or in *)
(* a query; a step is one turn of the loop of add_documents (an id and an  *)
(* embedding for one document), its upsert, or the index query of a        *)
(* search.  pc, inp and out hold one entry per caller, and log the         *)
(* identifiers uuid4 has given out.                                        *)
(***************************************************************************)
MaxIssued == 3

\* The concurrent callers: the indexing script and an upload, which ingest,
\* and a chat request, which queries.
Ingesters == {"script", "upload"}
Queriers == {"chat"}
Callers == Ingesters \cup Queriers

\* The mutant of NewId: the identifier is the position of the document in
\* its batch.
NewId_from_position(issued, idx) == idx + 1

\* str(uuid.uuid4()): an identifier that was never given out before.
NewId(issued, idx) ==
    CHOOSE id \in 1..(Cardinality(issued) + 1) :
        /\ id \notin issued
        /\ \A other \in 1..(Cardinality(issued) + 1) : other \notin issued => id <= other

\* index.upsert(vectors, namespace): a vector whose id the index holds is
\* replaced, the others are added.
Upsert(index, vectors, namespace) ==
    [id \in {vectors[i].id : i \in 1..Len(vectors)} |->
        LET v == CHOOSE v \in Range(vectors) : v.id = id
        IN  [namespace |-> namespace, metadata |-> v.metadata]]
    @@ index

\* The documents concurrent ingestions add.
ConcurrentBatches ==
    {documents \in Batches :
        \A i \in DOMAIN documents :
            documents[i].metadata.source \in {"transactions.pdf", "empty.txt"}}

\* The identifiers the calls in flight have still to draw.
ToDraw(p) ==
    IF pc[p] = "embedding" THEN Len(inp[p].documents) - Len(inp[p].vectors) ELSE 0

RECURSIVE SumToDraw(_)
SumToDraw(ps) ==
    IF ps = {} THEN 0
    ELSE LET p == CHOOSE p \in ps : TRUE IN ToDraw(p) + SumToDraw(ps \ {p})

InitConcurrent ==
    /\ pc = [p \in Callers |-> "idle"]
    /\ inp = [p \in Callers |-> [op |-> "none"]]
    /\ out = [p \in Callers |-> NoResult]
    /\ log = [issued |-> {}]
    /\ store = <<>>

\* A caller enters add_documents.
AddDocumentsCalled(p) ==
    /\ p \in Ingesters
    /\ pc[p] = "idle"
    /\ \E documents \in ConcurrentBatches, namespace \in {""} :
          /\ Cardinality(log.issued) + SumToDraw(Callers) + Len(documents) <= MaxIssued
          /\ inp' = [inp EXCEPT ![p] = [op |-> "add_documents",
                                        documents |-> documents,
                                        namespace |-> namespace,
                                        vectors |-> <<>>]]
    /\ pc' = [pc EXCEPT ![p] = "embedding"]
    /\ UNCHANGED <<out, log, store>>

\* One turn of the loop of add_documents: an identifier is drawn, the
\* document embedded and the vector kept for the upsert; a failed
\* embedding ends the call.
EmbedDocument(p) ==
    /\ pc[p] = "embedding"
    /\ Len(inp[p].vectors) < Len(inp[p].documents)
    /\ LET idx == Len(inp[p].vectors)
           doc == inp[p].documents[idx + 1]
           doc_id == NewId(log.issued, idx)
       IN  /\ log' = [log EXCEPT !.issued = @ \cup {doc_id}]
           /\ \E embedded \in BOOLEAN :
                 IF EmbedRaises(doc.page_content) \/ ~embedded
                 THEN /\ out' = [out EXCEPT ![p] =
                                    Raised(IF EmbedRaises(doc.page_content)
                                           THEN "ValueError" ELSE "RuntimeError")]
                      /\ pc' = [pc EXCEPT ![p] = "done"]
                      /\ UNCHANGED inp
                 ELSE /\ inp' = [inp EXCEPT ![p].vectors =
                                    Append(@, [id |-> doc_id,
                                               metadata |-> VectorMetadata(doc)])]
                      /\ UNCHANGED <<pc, out>>
    /\ UNCHANGED store

\* The upsert that ends add_documents.
UpsertVectors(p) ==
    /\ pc[p] = "embedding"
    /\ Len(inp[p].vectors) = Len(inp[p].documents)
    /\ \E upsert_ok \in BOOLEAN :
          IF upsert_ok
          THEN /\ store' = Upsert(store, inp[p].vectors, inp[p].namespace)
               /\ out' = [out EXCEPT ![p] =
                             Returned([success |-> TRUE,
                                       documents_added |-> Len(inp[p].vectors),
                                       namespace |-> inp[p].namespace])]
          ELSE /\ out' = [out EXCEPT ![p] = Raised("PineconeException")]
               /\ UNCHANGED store
    /\ pc' = [pc EXCEPT ![p] = "done"]
    /\ UNCHANGED <<inp, log>>

\* A caller enters KnowledgeBase.query.
QueryCalled(p) ==
    /\ p \in Queriers
    /\ pc[p] = "idle"
    /\ \E question \in Questions, stakeholder \in {None, "tech_lead"},
          namespace \in {""} :
          inp' = [inp EXCEPT ![p] = [op |-> "query", question |-> question,
                                     stakeholder |-> stakeholder,
                                     top_k |-> MaxTopK, namespace |-> namespace]]
    /\ pc' = [pc EXCEPT ![p] = "searching"]
    /\ UNCHANGED <<out, log, store>>

\* The search of the query: the question is embedded and the index asked.
SearchIndex(p) ==
    /\ pc[p] = "searching"
    /\ \E ranking \in Rankings(store, inp[p].namespace) :
          out' = [out EXCEPT ![p] =
                     knowledge_base_query(store, inp[p].question, inp[p].stakeholder,
                                          inp[p].top_k, inp[p].namespace, ranking)]
    /\ pc' = [pc EXCEPT ![p] = "done"]
    /\ UNCHANGED <<inp, log, store>>

\* The call returns and the caller may call again.
CallerReturns(p) ==
    /\ pc[p] = "done"
    /\ pc' = [pc EXCEPT ![p] = "idle"]
    /\ inp' = [inp EXCEPT ![p] = [op |-> "none"]]
    /\ out' = [out EXCEPT ![p] = NoResult]
    /\ UNCHANGED <<log, store>>

NextConcurrent ==
    \E p \in Callers :
        \/ AddDocumentsCalled(p)
        \/ EmbedDocument(p)
        \/ UpsertVectors(p)
        \/ QueryCalled(p)
        \/ SearchIndex(p)
        \/ CallerReturns(p)

SpecConcurrent == InitConcurrent /\ [][NextConcurrent]_vars

\* The identifiers a caller holds for its coming upsert.
Drawn(p) ==
    IF pc[p] = "embedding"
    THEN {inp[p].vectors[i].id : i \in 1..Len(inp[p].vectors)} ELSE {}

\* C19: under any interleaving of add_documents and query calls, the
\* identifiers a call draws are new (not in the index, not held by another
\* call, no two alike within the call), every vector of the index stays as
\* it was written (none overwritten, none deleted), the index changes only
\* in the upsert of an add_documents, and no step of a query changes it.
C19_AppendOnlyUnderInterleaving ==
    [][ /\ \A p \in Callers :
               /\ Drawn(p) \cap DOMAIN store = {}
               /\ Cardinality(Drawn(p)) = Len(IF pc[p] = "embedding"
                                              THEN inp[p].vectors ELSE <<>>)
               /\ \A q \in Callers \ {p} : Drawn(p) \cap Drawn(q) = {}
        /\ \A id \in DOMAIN store : id \in DOMAIN store' /\ store'[id] = store[id]
        /\ store' # store =>
               \E p \in Callers : /\ pc[p] = "embedding"
                                  /\ pc'[p] = "done"
                                  /\ DOMAIN store' \ DOMAIN store = Drawn(p)
        /\ \A p \in Callers :
               (pc[p] = "searching" /\ pc'[p] = "done") => store' = store
      ]_vars

\* Two ingestions overlap: a caller drew its identifier first and is still
\* embedding while the other, which drew later, has upserted; then the
\* first upserts too and the index holds both vectors.
C19_Witness_OverlappingIngestions ==
    \E p, q \in Callers :
        /\ p # q
        /\ pc[p] = "done" /\ inp[p].op = "add_documents" /\ out[p].status = "returned"
        /\ pc[q] = "done" /\ inp[q].op = "add_documents" /\ out[q].status = "returned"
        /\ Len(inp[p].vectors) = 2
        /\ inp[p].vectors[1].id = 1
        /\ inp[q].vectors[1].id = 2
        /\ inp[p].vectors[2].id = 3
        /\ DOMAIN store = {1, 2, 3}

ChatDone == pc = "done" /\ inp.op = "chat"

\* The retrieval of a chat call failed: the question could not be embedded
\* or the index did not answer.
RetrievalFailed == EmbedRaises(inp.query) \/ log.ranking.status = "raised"

\* The messages of the failures the services and the file system produce.
ErrorMessages ==
    {"ValueError", "PineconeException", "RuntimeError", "ConnectionError",
     "PermissionError"}

\* C20: every call of chat and of process_and_index_document returns a
\* result with a success flag and never raises; when the call failed (the
\* question is empty or blank, the retrieval or an embedding fails, the
\* file type is not supported, or any other stage of the ingestion fails)
\* the flag is FALSE and the result carries the error message, and a result
\* whose flag is FALSE always carries one.
C20_EntryPointsReturnStructuredResults ==
    /\ ChatDone =>
           /\ out.status = "returned"
           /\ "success" \in DOMAIN out.value
           /\ out.value.success \in BOOLEAN
           /\ RetrievalFailed <=> ~out.value.success
           /\ ~out.value.success =>
                  /\ "error" \in DOMAIN out.value
                  /\ out.value.error \in ErrorMessages
                  /\ out.value.answer = ChatErrorAnswer
    /\ IngestDone =>
           /\ out.status = "returned"
           /\ "success" \in DOMAIN out.value
           /\ out.value.success \in BOOLEAN
           /\ Lower(inp.file_path.suffix) \notin supported_extensions =>
                  ~out.value.success
           /\ FailedRun # 0 <=> ~out.value.success
           /\ ~out.value.success =>
                  /\ "error" \in DOMAIN out.value
                  /\ out.value.error \in ErrorMessages

\* chat is asked the empty question: the embedding refuses it, and the call
\* returns success = FALSE with the error instead of raising.
C20_Witness_EmptyQuestionReported ==
    /\ ChatDone
    /\ inp.query = <<>>
    /\ log.ranking.status = "returned"
    /\ out.status = "returned"
    /\ out.value.success = FALSE
    /\ out.value.error = "ValueError"

(***************************************************************************)
(* The confidence of an answer: generate_response on chunks of any score,  *)
(* and chat on the chunks the index returned.  Scores are in hundredths,   *)
(* so 90 is the similarity 0.9 and 150 a similarity above 1.               *)
(***************************************************************************)
ScoreValues == {0, 50, 90, 100, 150}

ScoredDocs ==
    {[text |-> <<"U","P","I">>, score |-> score, source |-> "transactions.pdf",
      doc_type |-> "upi_transaction"] : score \in ScoreValues}

InitAnswer == InitPipeline

\* One call of generate_response on scored chunks.
GenerateOnScoredDocs ==
    /\ pc = "idle"
    /\ \E context_docs \in SeqsUpTo(ScoredDocs, MaxContextDocs),
          http \in HttpOutcomes :
          /\ out' = generate_response(SlaUptimeHdfcQuery, context_docs,
                                      "product_lead", http)
          /\ inp' = [op |-> "generate_response", query |-> SlaUptimeHdfcQuery,
                     context_docs |-> context_docs, stakeholder |-> "product_lead"]
          /\ log' = [http |-> http]
    /\ pc' = "done"
    /\ UNCHANGED store

\* Answers handed to format_response: generated texts, texts with terms a
\* role forbids, and the empty text.
FormattedAnswers ==
    GeneratedTexts
    \cup {<<>>,
          <<"A","P","I"," ","e","r","r","o","r">>,
          <<"U","s","e","r"," ","c","o","n","v","e","r","s","i","o","n"," ","r","a","t","e">>}

\* One call of format_response.
FormatResponse ==
    /\ pc = "idle"
    /\ \E response \in FormattedAnswers,
          sources \in SeqsUpTo(SourcePool, MaxContextDocs),
          stakeholder \in Range(Roles) \cup {UnknownRole} :
          /\ out' = Returned(format_response(response, sources, stakeholder))
          /\ inp' = [op |-> "format_response", response |-> response,
                     sources |-> sources, stakeholder |-> stakeholder]
    /\ log' = <<>>
    /\ pc' = "done"
    /\ UNCHANGED store

NextAnswer == GenerateOnScoredDocs \/ FormatResponse \/ Chat

SpecAnswer == InitAnswer /\ [][NextAnswer]_vars

\* The generation service answered with a text.
Generated ==
    /\ log.http.status = "returned"
    /\ log.http.value.status_code = 200
    /\ "response" \in DOMAIN log.http.value.body

RECURSIVE SumOf(_)
SumOf(scores) == IF Len(scores) = 0 THEN 0 ELSE scores[1] + SumOf(Tail(scores))

\* The fraction c is min(mean(scores) * 100, 100) for scores in hundredths,
\* and 0 for no score.
IsCappedMean(c, scores) ==
    IF Len(scores) = 0 THEN c[1] = 0
    ELSE IF SumOf(scores) >= 100 * Len(scores) THEN c[1] = 100 * c[2]
    ELSE c[1] * Len(scores) = SumOf(scores) * c[2]

\* C21: the confidence of a generated answer is the mean of the chunks'
\* scores times 100, capped at 100, and 0 without chunks; the confidence
\* chat reports, its chunks having scores in [0,1], lies in [0,100], and is
\* that mean over the sources of the answer when the text was generated.
C21_ConfidenceIsCappedMean ==
    /\ (pc = "done" /\ inp.op = "generate_response" /\ Generated) =>
           /\ out.value.confidence[2] > 0
           /\ IsCappedMean(out.value.confidence,
                           [i \in DOMAIN inp.context_docs |-> inp.context_docs[i].score])
    /\ ChatDone =>
           /\ out.value.confidence[2] > 0
           /\ out.value.confidence[1] >= 0
           /\ out.value.confidence[1] <= 100 * out.value.confidence[2]
           /\ (out.value.success /\ Generated) =>
                  IsCappedMean(out.value.confidence,
                               [i \in DOMAIN out.value.sources |->
                                   out.value.sources[i].relevance_score])

\* Chunks with scores 0.9 and 0.5 give the confidence 70.
C21_Witness_SeventyForPointNineAndPointFive ==
    /\ pc = "done"
    /\ inp.op = "generate_response"
    /\ Generated
    /\ Len(inp.context_docs) = 2
    /\ inp.context_docs[1].score = 90
    /\ inp.context_docs[2].score = 50
    /\ out.value.confidence = <<70, 1>>

\* C22: format_response returns the answer as given, also when it does not
\* adhere to the role, the sources unchanged with their number as
\* source_count, and role_adherence as validate_response_relevance of the
\* answer and the role; the role_adherence of chat's final response is that
\* value for the answer and the role chat returns.
C22_FormatResponseOnlyAnnotates ==
    /\ (pc = "done" /\ inp.op = "format_response") =>
           /\ out.value.answer = inp.response
           /\ out.value.sources = inp.sources
           /\ out.value.source_count = Len(inp.sources)
           /\ out.value.stakeholder = inp.stakeholder
           /\ out.value.role_adherence =
                  validate_response_relevance(inp.response, inp.stakeholder)
    /\ (ChatDone /\ "role_adherence" \in DOMAIN out.value) =>
           out.value.role_adherence =
               validate_response_relevance(out.value.answer, out.value.stakeholder)

\* An answer with a term the role forbids comes back unchanged, marked as
\* not adhering.
C22_Witness_UnalignedAnswerReturned ==
    /\ pc = "done"
    /\ inp.op = "format_response"
    /\ inp.response # <<>>
    /\ Len(inp.sources) = 2
    /\ ~out.value.role_adherence
    /\ out.value.answer = inp.response

(***************************************************************************)
(* One retrieval on a filled index, the index's ranking on record.         *)
(***************************************************************************)
\* The index before the retrieval: empty, or holding chunks of an SLA, an
\* audit report and a transaction report, and one untagged chunk.
RetrieveIndexes == {
    <<>>,
    add_documents(<<>>,
                  <<ClassifiedChunk(<<"S","L","A"," ","u","p","t","i","m","e"," ","9","9",".","9">>,
                                    "hdfc_sla.pdf", "partnership_sla"),
                    ClassifiedChunk(<<"K","Y","C"," ","a","u","d","i","t">>,
                                    "audit.pdf", "compliance_report"),
                    ClassifiedChunk(<<"U","P","I"," ","p","a","y","m","e","n","t"," ","f","a","i","l","e","d">>,
                                    "transactions.pdf", "upi_transaction"),
                    [page_content |-> <<"r","e","l","e","a","s","e"," ","n","o","t","e","s">>,
                     metadata |-> [source |-> "notes.txt"]]>>,
                  "", 0, TRUE)[2]
}

InitRetrieve ==
    /\ pc = "idle"
    /\ inp = [op |-> "none"]
    /\ out = NoResult
    /\ log = <<>>
    /\ store \in RetrieveIndexes

\* One call of KnowledgeBase.query, with or without a role.
QueryKnowledgeBase ==
    /\ pc = "idle"
    /\ \E question \in Questions, stakeholder \in {None} \cup Range(Roles),
          top_k \in 1..MaxTopK, ranking \in Rankings(store, "") :
          /\ out' = knowledge_base_query(store, question, stakeholder, top_k, "",
                                         ranking)
          /\ inp' = [op |-> "query", question |-> question,
                     stakeholder |-> stakeholder, top_k |-> top_k,
                     namespace |-> ""]
          /\ log' = [ranking |-> ranking]
    /\ pc' = "done"
    /\ UNCHANGED store

NextRetrieve == QueryKnowledgeBase

SpecRetrieve == InitRetrieve /\ [][NextRetrieve]_vars

RetrievalReturned ==
    /\ pc = "done"
    /\ inp.op = "query"
    /\ out.status = "returned"

\* The ids of the chunks returned, in the order returned.
ReturnedIds == [i \in DOMAIN out.value |-> out.value[i].id]

\* The chunk is visible to the role: its tag lists the role or is empty.
VisibleTo(id, role) ==
    StoredTag(id) = <<>> \/ Chars(role) \in RolesListed(StoredTag(id))

\* C23: a retrieval for a role with top_k = k returns, in rank order, the
\* first k chunks visible to the role among the 2k best ranked of the store,
\* never more than k; a retrieval without a role returns the k best ranked,
\* unfiltered.
C23_RoleRetrievalFiltersTwiceTopK ==
    RetrievalReturned =>
        IF inp.stakeholder \in Range(Roles)
        THEN /\ ReturnedIds =
                    Take(SelectSeq(Take(log.ranking.value, 2 * inp.top_k),
                                   LAMBDA id : VisibleTo(id, inp.stakeholder)),
                         inp.top_k)
             /\ Len(out.value) <= inp.top_k
        ELSE ReturnedIds = Take(log.ranking.value, inp.top_k)

\* A retrieval with top_k = 1 whose two best ranked chunks are hidden from
\* the role returns nothing, although the third is visible.
C23_Witness_VisibleChunkBeyondTwiceTopK ==
    /\ RetrievalReturned
    /\ inp.stakeholder \in Range(Roles)
    /\ inp.top_k = 1
    /\ Len(log.ranking.value) > 2
    /\ ~VisibleTo(log.ranking.value[1], inp.stakeholder)
    /\ ~VisibleTo(log.ranking.value[2], inp.stakeholder)
    /\ VisibleTo(log.ranking.value[3], inp.stakeholder)
    /\ out.value = <<>>

(***************************************************************************)
(* classify_document step by step: the rule pass, the call of the          *)
(* zero-shot service, the decision.                                        *)
(***************************************************************************)
InitClassifySteps == InitClassify

\* rule_based_type = self._rule_based_classify(text, filename)
RuleBasedClassify ==
    /\ pc = "call"
    /\ inp.op = "classify_document"
    /\ inp' = [rule_based_type |-> _rule_based_classify(inp.text, inp.filename)]
              @@ inp
    /\ pc' = "rule_based_classified"
    /\ UNCHANGED <<out, log, store>>

\* ml_based_type, confidence = self._ml_based_classify(text): the service
\* is called; its exception leaves classify_document.
MLBasedClassify ==
    /\ pc = "rule_based_classified"
    /\ \E ml \in MLOutcomes :
          /\ log' = Append(log, [service |-> "zero_shot_classifier", response |-> ml])
          /\ IF ml.status = "raised"
             THEN pc' = "done" /\ out' = Raised(ml.error)
             ELSE pc' = "ml_based_classified" /\ out' = out
    /\ UNCHANGED <<inp, store>>

\* The decision between the two types, and the result.
Decide ==
    /\ pc = "ml_based_classified"
    /\ out' = classify_document(inp.text, inp.filename, MLResponse)
    /\ pc' = "done"
    /\ UNCHANGED <<inp, log, store>>

NextClassifySteps == RuleBasedClassify \/ MLBasedClassify \/ Decide

SpecClassifySteps == InitClassifySteps /\ [][NextClassifySteps]_vars

\* C24: every call of classify_document calls the zero-shot service exactly
\* once, after the rule pass and before the decision, with a strong rule
\* match or without; the answer of the service is used only when the rule
\* candidate is absent or not strong.
C24_ServiceCalledOnceBeforeDecision ==
    /\ pc \in {"call", "rule_based_classified"} => log = <<>> /\ out = NoResult
    /\ pc = "ml_based_classified" => out = NoResult
    /\ pc \in {"ml_based_classified", "done"} =>
           /\ Len(log) = 1
           /\ log[1].service = "zero_shot_classifier"
    /\ (ClassifyDone /\ out.status = "returned") =>
           IF RuleCandidateStrong
           THEN /\ out.value.doc_type = inp.rule_based_type
                /\ out.value.confidence = RuleConfidence
                /\ out.value.classification_method = "rule_based"
           ELSE /\ out.value.doc_type = MLResponse.value[1]
                /\ out.value.confidence = MLResponse.value[2]

\* With a strong rule match the service was called all the same, and its
\* confident answer for another type was not used.
C24_Witness_ServiceCalledThoughRuleStrong ==
    /\ ClassifyDone
    /\ RuleCandidateStrong
    /\ Len(log) = 1
    /\ MLResponse.status = "returned"
    /\ MLResponse.value[1] # inp.rule_based_type
    /\ MLResponse.value[2] > RuleConfidence
    /\ out.status = "returned"
    /\ out.value.doc_type = inp.rule_based_type

(***************************************************************************)
(* The scores of the rule pass, counted two ways.                          *)
(***************************************************************************)
\* Whether a keyword of the doc type occurs in the lower-cased file name.
FilenameNames(doc_type) ==
    \E keyword \in Range(DOCUMENT_PATTERNS[doc_type]) :
        Contains(Lower(inp.filename), keyword)

FilenameBonus(doc_type) == IF FilenameNames(doc_type) THEN 2 ELSE 0

\* The number of keywords of the doc type that the text holds, plus the
\* bonus.
KeywordScore(doc_type) ==
    Cardinality(PatternsPresent(doc_type, inp.text)) + FilenameBonus(doc_type)

\* The number of places of the text at which the keyword stands.
Occurrences(text, keyword) ==
    Cardinality({i \in 1..Len(text) :
                    /\ i + Len(keyword) - 1 <= Len(text)
                    /\ SubSeq(text, i, i + Len(keyword) - 1) = keyword})

RECURSIVE SumOccurrences(_, _)
SumOccurrences(text, keywords) ==
    IF Len(keywords) = 0 THEN 0
    ELSE Occurrences(text, keywords[1]) + SumOccurrences(text, Tail(keywords))

\* The number of occurrences of the doc type's keywords in the text, plus
\* the bonus.
OccurrenceScore(doc_type) ==
    SumOccurrences(Lower(inp.text), DOCUMENT_PATTERNS[doc_type])
    + FilenameBonus(doc_type)

\* C25 as stated: the score of a doc type is the number of occurrences of
\* its keywords in the lower-cased text, plus 2 if the file name holds one
\* of them; the rule candidate is the doc type with the highest score, and
\* is absent when every score is zero.
C25_Original_ScoreCountsOccurrences ==
    ClassifyDone =>
        IF \A t \in Range(DOCUMENT_TYPES) : OccurrenceScore(t) = 0
        THEN RuleCandidate = None
        ELSE /\ RuleCandidate \in Range(DOCUMENT_TYPES)
             /\ \A t \in Range(DOCUMENT_TYPES) :
                    OccurrenceScore(t) <= OccurrenceScore(RuleCandidate)

\* C25, amended: the score of a doc type is the number of its keywords that
\* occur in the lower-cased text, each counted once, plus 2 if the file name
\* holds one of them; the rule candidate is the doc type with the highest
\* score, absent when every score is zero; the strength check counts the
\* keywords in the text only, so a candidate with fewer than 3 of them is
\* not strong whatever its score, and the result is then the ML answer.
C25_ScoreCountsKeywordsPresent ==
    ClassifyDone =>
        /\ IF \A t \in Range(DOCUMENT_TYPES) : KeywordScore(t) = 0
           THEN RuleCandidate = None
           ELSE /\ RuleCandidate \in Range(DOCUMENT_TYPES)
                /\ \A t \in Range(DOCUMENT_TYPES) :
                       KeywordScore(t) <= KeywordScore(RuleCandidate)
        /\ (/\ out.status = "returned"
            /\ RuleCandidate # None
            /\ Cardinality(PatternsPresent(RuleCandidate, inp.text)) < 3) =>
               /\ out.value.doc_type = MLResponse.value[1]
               /\ out.value.confidence = MLResponse.value[2]

\* The file name makes a type the candidate that the text alone would not
\* make it, with a score of 3 or more, and the candidate is not strong: the
\* result is the ML answer for another type.
C25_Witness_BonusSelectsButNotStrong ==
    /\ ClassifyDone
    /\ out.status = "returned"
    /\ RuleCandidate # None
    /\ FilenameNames(RuleCandidate)
    /\ KeywordScore(RuleCandidate) >= 3
    /\ \E t \in Range(DOCUMENT_TYPES) :
          Cardinality(PatternsPresent(t, inp.text)) >
              Cardinality(PatternsPresent(RuleCandidate, inp.text))
    /\ MLResponse.value[1] # RuleCandidate
    /\ out.value.doc_type = MLResponse.value[1]

\* C26: the answer that _clean_response leaves never opens with one of the
\* role-revealing phrases, whatever the generated text, also a text that
\* opens with two of them in a row or with whitespace before one; cleaning
\* the answer again changes nothing.
C26_Original_CleanedAnswerHasNoRolePrefix ==
    (GenerateDone /\ ~GenerationFailed) =>
        /\ \A i \in 1..Len(phrases_to_remove) :
              ~StartsWith(out.value.answer, phrases_to_remove[i])
        /\ _clean_response(out.value.answer) = out.value.answer

\* C27: every result of chat, on the success path and on the failure path,
\* names in its stakeholder field one of the four configured roles, the one
\* route_query selects for the query and the explicit role; an explicit role
\* that is not configured is never echoed.
C27_Original_StakeholderIsRoutedRole ==
    ChatDone =>
        /\ out.status = "returned"
        /\ out.value.stakeholder \in Range(Roles)
        /\ out.value.stakeholder = route_query(inp.query, inp.user_role)

\* The chunks the splitter returned in this call.
ChunksCreated ==
    LET at == {i \in DOMAIN log : log[i].stage = "chunking"}
    IN  IF at = {} \/ FailedRun \in at THEN <<>>
        ELSE log[CHOOSE i \in at : TRUE].outcome.value

\* C28: a call of process_and_index_document in which the embedding of a
\* chunk or an earlier stage fails leaves the index as it found it, no
\* vector of the document written; a successful call leaves every vector
\* the index held untouched and adds exactly one vector per chunk, and its
\* chunks_indexed equals its chunks_created.
C28_IngestionIsAllOrNothing ==
    IngestDone =>
        IF out.value.success
        THEN /\ \A id \in DOMAIN inp.index :
                    id \in DOMAIN store /\ store[id] = inp.index[id]
             /\ Cardinality(Upserted) = Len(ChunksCreated)
             /\ out.value.chunks_created = Len(ChunksCreated)
             /\ out.value.chunks_indexed = out.value.chunks_created
             /\ {store[id].metadata.text : id \in Upserted} = Range(ChunksCreated)
        ELSE (FailedRun # 0 /\ log[FailedRun].stage # "indexing") =>
                 store = inp.index

\* A document of two chunks: the first is embedded, the embedding of the
\* second fails, and the filled index is as before.
C28_Witness_SecondChunkFailsNothingWritten ==
    /\ IngestDone
    /\ ~out.value.success
    /\ Len(ChunksCreated) = 2
    /\ \E i \in DOMAIN log :
          /\ log[i].stage = "embedding"
          /\ log[i].outcome.status = "returned"
    /\ FailedRun # 0
    /\ log[FailedRun].stage = "embedding"
    /\ inp.index # <<>>
    /\ store = inp.index

\* The chunks a call of chat retrieved for the role it routed to.
ChatRetrieved ==
    knowledge_base_query(inp.index, inp.query, out.value.stakeholder, inp.top_k,
                         "", log.ranking).value

MaxStored == 3

\* The files ingested again and again: one that is indexed and one that
\* cannot be read.
ReingestFiles == {file \in IngestFiles : file.name \in {"txn.pdf", "locked.pdf"}}

InitReingest ==
    /\ pc = "idle"
    /\ inp = [op |-> "none"]
    /\ out = NoResult
    /\ log = <<>>
    /\ store = <<>>

\* One more call of KnowledgeBase.process_and_index_document.
IngestAgain ==
    /\ pc = "idle"
    /\ Cardinality(DOMAIN store) < MaxStored
    /\ \E file_path \in ReingestFiles :
        \E svc \in IngestServices(file_path) :
          \E r \in {process_and_index_document(store, file_path, "", svc)} :
              /\ out' = Returned(r[1])
              /\ store' = r[2]
              /\ log' = r[3]
              /\ inp' = [op |-> "process_and_index_document",
                         file_path |-> file_path, namespace |-> "",
                         index |-> store]
    /\ pc' = "done"

\* One call of KnowledgeBase.query between the ingestions.
QueryBetween ==
    /\ pc = "idle"
    /\ \E stakeholder \in {None, "product_lead", "bank_alliance_lead"},
          top_k \in 1..MaxTopK, ranking \in Rankings(store, "") :
          /\ out' = knowledge_base_query(store, SlaUptimeHdfcQuery, stakeholder,
                                         top_k, "", ranking)
          /\ inp' = [op |-> "query", question |-> SlaUptimeHdfcQuery,
                     stakeholder |-> stakeholder, top_k |-> top_k,
                     namespace |-> ""]
    /\ log' = <<>>
    /\ pc' = "done"
    /\ UNCHANGED store

\* The call returns to its caller, which may call again.
ReturnFromCall ==
    /\ pc = "done"
    /\ pc' = "idle"
    /\ inp' = [op |-> "none"]
    /\ out' = NoResult
    /\ log' = <<>>
    /\ UNCHANGED store

NextReingest == IngestAgain \/ QueryBetween \/ ReturnFromCall

SpecReingest == InitReingest /\ [][NextReingest]_vars

\* The vectors of the index that hold the text as their chunk.
Copies(index, text) == {id \in DOMAIN index : index[id].metadata.text = text}

\* How often the text is among the chunks.
TimesIn(chunks, text) == Cardinality({i \in DOMAIN chunks : chunks[i] = text})

\* C30: ingestion is not idempotent on the index: every successful call of
\* process_and_index_document adds as many new vectors as the document has
\* chunks, one more copy of each chunk whatever the index already held, so
\* n ingestions of a document leave n copies of each of its chunks; and no
\* ingestion and no query ever takes a vector away.
C30_EachIngestionAddsItsChunks ==
    [][/\ DOMAIN store \subseteq DOMAIN store'
       /\ \A id \in DOMAIN store : store'[id] = store[id]
       /\ (pc = "idle" /\ IngestDone' /\ out'.value.success) =>
              /\ Cardinality(DOMAIN store')
                     = Cardinality(DOMAIN store) + out'.value.chunks_created
              /\ \A text \in Range(ChunksCreated') :
                     Cardinality(Copies(store', text))
                         = Cardinality(Copies(store, text))
                               + TimesIn(ChunksCreated', text)
       /\ ~(pc = "idle" /\ IngestDone') => store' = store]_vars

\* The same document ingested a second time: the index holds its chunk
\* twice.
C30_Witness_SecondIngestionSecondCopy ==
    /\ IngestDone
    /\ out.value.success
    /\ inp.file_path.name = "txn.pdf"
    /\ Len(ChunksCreated) = 1
    /\ Cardinality(Copies(inp.index, ChunksCreated[1])) = 1
    /\ Cardinality(Copies(store, ChunksCreated[1])) = 2

=============================================================================
